---- MODULE Spec2Model ----
(***************************************************************************)
(* Model of the rag-scraping acquisition and chunking pipeline:            *)
(*   - scrape_with_retry / scrape_item_details / scrape_detailed_items     *)
(*     (src/src/rag_scraping/scraping.py, pipeline.py)                     *)
(*   - split_text_into_chunks / create_chunks_from_item                    *)
(*     (src/src/rag_scraping/utils.py, rag_chunking.py)                    *)
(*   - normalize_document_id (src/src/rag_scraping/utils.py)               *)
(* Strings are sequences of one-character strings.                         *)
(***************************************************************************)
EXTENDS Integers, Sequences, FiniteSets, TLC

VARIABLES
    \* ---- scraping session (scrape_detailed_items) ----
    max_retries,     \* config['scraping']['max_retries']
    retry_delays,    \* config['scraping']['retry_delays']
    max_items,       \* argument max_items (None or an integer)
    filter_type,     \* argument filter_type (None or a type)
    pc,              \* position of the session's control flow
    swr_caller,      \* who called scrape_with_retry: "main" or "item"
    swr_attempt,     \* loop variable `attempt` of scrape_with_retry
    swr_fetches,     \* crawler.arun calls issued by the current scrape_with_retry call
    swr_waits,       \* delays slept by the current scrape_with_retry call
    swr_last,        \* outcome of the last crawler.arun call
    swr_result,      \* value returned by the last scrape_with_retry call
    main_items,      \* main_items of scrape_detailed_items (after filter and limit)
    i,               \* loop index of scrape_detailed_items (1-based)
    sid_attempt,     \* loop variable `attempt` of scrape_item_details
    sid_fetches,     \* crawler.arun calls issued for the current item
    sid_waits,       \* delays slept by scrape_item_details' own loop for the current item
    sid_bad,         \* attempts of the current item that ended in the except handler
    sid_outcome,     \* how the last scrape_item_details call ended
    sid_item,        \* the KnowledgeBaseItem it returned
    main_content,    \* local main_content of scrape_item_details (scraping.py:187)
    detailed_items,  \* detailed_items of scrape_detailed_items
    stats,           \* stats of scrape_detailed_items
    polite_sleeps,   \* request_delay sleeps taken between items
    \* ---- chunking (split_text_into_chunks, create_chunks_from_item) ----
    ck_pc,           \* position in the chunking call
    ck_caller,       \* "direct" call of split_text_into_chunks, or via create_chunks_from_item
    item_content,    \* item.main_content of the item being chunked
    text,            \* argument text of split_text_into_chunks
    max_chunk_size,  \* argument max_chunk_size
    min_chunk_size,  \* argument min_chunk_size
    overlap,         \* argument overlap
    current_pos,     \* local current_pos
    prev_pos,        \* current_pos at the start of the last iteration
    break_pos,       \* local break_pos of the last non-final window
    iterations,      \* iterations of the while loop executed
    chunks,          \* local chunks (the result list)
    item_chunks,     \* chunks returned by create_chunks_from_item
    \* ---- identifiers (normalize_document_id) ----
    id_pc,           \* position in the identifier scenario
    id_input,        \* the string handed to normalize_document_id
    id_once,         \* normalize_document_id(id_input)
    id_twice,        \* normalize_document_id(id_once)
    \* ---- chunk ids (create_chunk_id) ----
    cid_pc,          \* position in the create_chunk_id call
    cid_title,       \* argument title
    cid_number,      \* argument chunk_number
    cid_result,      \* the returned chunk id
    \* ---- one pipeline run (run_full_pipeline, steps 2-4) ----
    run_pc,          \* position in run_full_pipeline
    n_items,         \* len(detailed_items)
    include_pdfs,    \* argument include_pdfs
    run_i,           \* item index of the loop in progress (1-based)
    run_npdfs,       \* len(item.pdfs) of the item in progress
    run_j,           \* index into item.pdfs (1-based)
    page_chunks,     \* page_chunks of run_full_pipeline
    pdf_chunks,      \* rag_ready_items of process_all_pdfs
    all_chunks,      \* all_chunks of run_full_pipeline
    pdf_outcome,     \* what process_all_pdfs met for the pdf_url handled last
    raw_items,       \* raw_items of process_all_pdfs: (item, pdf) of each entry
    \* ---- content extraction ----
    ex_pc,           \* position in the extraction call
    extractor,       \* which extractor runs
    ex_found,        \* length of the text each strategy finds on the page (0: nothing)
    ex_result,       \* the candidate whose text is returned (NoContent for "")
    \* ---- content validation (is_valid_content) ----
    vc_pc,           \* position in the is_valid_content call
    vc_body,         \* argument content
    vc_valid,        \* the returned verdict
    \* ---- PDF chunking (PDFProcessor._create_rag_ready_chunks, create_pdf_chunks) ----
    pdf_pc,          \* position in the chunker
    pdf_impl,        \* which chunker runs: "pdfs" (class) or "pdf_processing" (function)
    pdf_min_chunk_size,  \* config['rag']['min_chunk_size']
    page_num,        \* loop variable page_num (0 before the first page)
    pdf_k,           \* chunks of the current page read so far
    fragments_read,  \* chunks read so far in the whole PDF
    current_merged,  \* local current_merged
    current_merged_images,  \* local current_merged_images
    merged_chunks,   \* local merged_chunks
    chunk_id,        \* local chunk_id
    pdf_skipped,     \* chunks passed over by the emit loop so far
    pdf_out,         \* local chunks (the result list)
    \* ---- PDF chunking, the oversize split (pdfs.py:167-217) ----
    sp_pc,           \* position in the split of one chunk
    sp_n,            \* sentences of the chunk read so far
    sp_len,          \* length of the chunk's text read so far
    current_sentence_group,  \* local current_sentence_group
    final_chunks,    \* fragments appended to final_chunks for this chunk
    \* ---- dates (format_date) ----
    fd_pc,           \* position in the format_date call
    date_value,      \* argument date_value
    fd_result,       \* the returned value
    \* ---- upload-time validation (validate_and_fix_documents) ----
    doc_pc,          \* position in validate_and_fix_documents
    doc_impl,        \* which module's function runs: "upload" or "validation"
    auto_fix,        \* argument auto_fix (validation.py only)
    n_docs,          \* len(docs)
    docs_read,       \* documents of docs taken from the list so far
    doc,             \* loop variable doc
    fixed_docs,      \* local fixed_docs
    doc_stats        \* local stats

scrapeVars == <<max_retries, retry_delays, max_items, filter_type, pc,
                swr_caller, swr_attempt, swr_fetches, swr_waits, swr_last, swr_result,
                main_items, i, sid_attempt, sid_fetches, sid_waits, sid_bad,
                sid_outcome, sid_item, main_content, detailed_items, stats, polite_sleeps>>

chunkVars == <<ck_pc, ck_caller, item_content, text, max_chunk_size, min_chunk_size,
               overlap, current_pos, prev_pos, break_pos, iterations, chunks, item_chunks>>

idVars == <<id_pc, id_input, id_once, id_twice>>

chunkIdVars == <<cid_pc, cid_title, cid_number, cid_result>>

runVars == <<run_pc, n_items, include_pdfs, run_i, run_npdfs, run_j,
             page_chunks, pdf_chunks, all_chunks, pdf_outcome, raw_items>>

extractVars == <<ex_pc, extractor, ex_found, ex_result>>

validVars == <<vc_pc, vc_body, vc_valid>>

pdfVars == <<pdf_pc, pdf_impl, pdf_min_chunk_size, page_num, pdf_k, fragments_read, current_merged, current_merged_images, merged_chunks, chunk_id, pdf_skipped, pdf_out>>

splitVars == <<sp_pc, sp_n, sp_len, current_sentence_group, final_chunks>>

dateVars == <<fd_pc, date_value, fd_result>>

docVars == <<doc_pc, doc_impl, auto_fix, n_docs, docs_read, doc, fixed_docs, doc_stats>>

vars == <<scrapeVars, chunkVars, idVars, chunkIdVars, runVars, extractVars, validVars, pdfVars, splitVars, dateVars, docVars>>

\* What the actions of one part of the model leave alone: the other parts.
notScrapeVars == <<docVars, dateVars, splitVars, pdfVars, validVars, extractVars, chunkVars, idVars, chunkIdVars, runVars>>

notChunkVars == <<docVars, dateVars, splitVars, pdfVars, validVars, extractVars, scrapeVars, idVars, chunkIdVars, runVars>>

notIdVars == <<docVars, dateVars, splitVars, pdfVars, validVars, extractVars, scrapeVars, chunkVars, chunkIdVars, runVars>>

notChunkIdVars == <<docVars, dateVars, splitVars, pdfVars, validVars, extractVars, scrapeVars, chunkVars, idVars, runVars>>

notRunVars == <<docVars, dateVars, splitVars, pdfVars, validVars, extractVars, scrapeVars, chunkVars, idVars, chunkIdVars>>

notExtractVars == <<docVars, dateVars, splitVars, pdfVars, validVars, scrapeVars, chunkVars, idVars, chunkIdVars, runVars>>

notValidVars == <<docVars, dateVars, splitVars, pdfVars, scrapeVars, chunkVars, idVars, chunkIdVars, runVars, extractVars>>

notPdfVars == <<docVars, dateVars, splitVars, scrapeVars, chunkVars, idVars, chunkIdVars, runVars, extractVars, validVars>>

notSplitVars == <<docVars, dateVars, scrapeVars, chunkVars, idVars, chunkIdVars, runVars, extractVars, validVars, pdfVars>>

notDateVars == <<docVars, scrapeVars, chunkVars, idVars, chunkIdVars, runVars, extractVars, validVars, pdfVars, splitVars>>

notDocVars == <<scrapeVars, chunkVars, idVars, chunkIdVars, runVars, extractVars, validVars, pdfVars, splitVars, dateVars>>

None == "None"

\* None where the other values are integers
NoneInt == -1

Min(a, b) == IF a < b THEN a ELSE b

Max(a, b) == IF a > b THEN a ELSE b

(***************************************************************************)
(* Bounds of the model.                                                    *)
(***************************************************************************)
MaxRetriesBound == 2

MaxPageItems == 3

MaxTextLen == 8

MaxChunkBound == 7

MaxOverlapBound == 8

MaxItemTextLen == 4

MaxIdLen == 5

\* longest short title handed to create_chunk_id
MaxTitleLen == 3

\* largest of the consecutive chunk numbers handed to create_chunk_id
MaxChunkNumber == 11

\* most detailed items of one pipeline run
MaxRunItems == 2

\* most PDF links of one item
MaxPdfsPerItem == 2

\* highest page number of a PDF
MaxPdfPage == 3

\* most chunks read from one PDF
MaxPdfFragments == 3

\* most sentences of one oversize PDF chunk
MaxSentences == 3

\* most words of one sentence
MaxWordsPerSentence == 2

\* most documents handed to validate_and_fix_documents
MaxDocs == 2

(***************************************************************************)
(* Scraping session: scrape_detailed_items -> scrape_item_details ->       *)
(* scrape_with_retry.                                                      *)
(***************************************************************************)
Pending == "pending"

\* Outcomes of one `await crawler.arun(url)` inside the try of scrape_with_retry:
\* an exception, a falsy result, result.success false, result.html empty, or a
\* successful result with a body.
FetchOutcomes == {"exception", "no_result", "unsuccessful", "no_html", "ok"}

\* scraping.py:54  `if result and result.success and result.html`
FetchSucceeded(out) == out = "ok"

\* Retry schedules a configuration may carry (non-empty lists of seconds).
DelaySchedules == {<<1, 2, 5>>, <<3>>}

ItemTypes == {"Publicatie", "Tool"}

ItemTypeOf(k) == IF k % 2 = 1 THEN "Publicatie" ELSE "Tool"

\* MainPageItem(title, url, item_type) number k of the main page.
MainPageItem(k) == [title |-> k, url |-> k, item_type |-> ItemTypeOf(k)]

RECURSIVE Listing(_, _)
\* The items of S in page order, for the cards 1..n of the main page.
Listing(S, n) ==
    IF n = 0 THEN <<>>
    ELSE IF n \in S THEN Append(Listing(S, n - 1), MainPageItem(n))
         ELSE Listing(S, n - 1)

\* What scrape_main_page can parse out of a fetched main page.
PageListings == { Listing(S, MaxPageItems) : S \in SUBSET (1..MaxPageItems) }

\* Extracted main_content, abstracted to what the code inspects: the length of
\* the stripped text and the known phrases its lower-cased text contains.
Body(l, P) == [kind |-> "body", len |-> l, phrases |-> P, n |-> 0]

\* f"Failed to scrape after {max_retries + 1} attempts"
FailedAfter(n) == [kind |-> "Failed to scrape after N attempts", len |-> 32, phrases |-> {}, n |-> n]

\* f"Failed to scrape: {str(e)}"
FailedRaise == [kind |-> "Failed to scrape: e", len |-> 18, phrases |-> {}, n |-> 0]

ServerErrorPhrase == "server encountered an internal error"

Bodies == { Body(0, {}), Body(49, {}), Body(50, {}), Body(120, {}),
            Body(120, {ServerErrorPhrase}), Body(120, {"page not found"}) }

\* What the try block of scrape_item_details can meet after a successful fetch:
\* an extracted body, or an exception raised while parsing or extracting.
ExtractException == [kind |-> "exception", len |-> 0, phrases |-> {}, n |-> 0]

ExtractOutcomes == Bodies \cup {ExtractException}

MinContentLength == 50

\* scraping.py:144-151
error_indicators == { "server encountered an internal error",
                      "misconfiguration and was unable to complete",
                      "contact the server administrator",
                      "error occurred",
                      "500 internal server error",
                      "503 service unavailable" }

is_valid_content(content) ==
    IF content.len = 0 \/ content.len < MinContentLength THEN FALSE
    ELSE content.phrases \cap error_indicators = {}

KnowledgeBaseItem(main_item, content) ==
    [title |-> main_item.title, url |-> main_item.url,
     item_type |-> main_item.item_type, main_content |-> content]

AttemptsRange_OneShort == max_retries

\* range(max_retries + 1) of both retry loops
AttemptsRange == max_retries + 1

WaitBeforeRetry_Always(attempt) == attempt <= max_retries

\* `if attempt < max_retries:` guarding the sleep of both retry loops
WaitBeforeRetry(attempt) == attempt < max_retries

\* retry_delays[min(attempt, len(retry_delays) - 1)]  (0-based in the code)
RetryDelay(attempt) == retry_delays[Min(attempt, Len(retry_delays) - 1) + 1]

FailedItem_CountsRetries(main_item) == KnowledgeBaseItem(main_item, FailedAfter(max_retries))

\* The item returned after the loop of scrape_item_details is exhausted.
FailedItem(main_item) == KnowledgeBaseItem(main_item, FailedAfter(max_retries + 1))

\* main_items = [item for item in main_items if item.item_type == filter_type]
ApplyFilter(items, ft) ==
    IF ft = None THEN items
    ELSE SelectSeq(items, LAMBDA it : it.item_type = ft)

\* `if max_items: main_items = main_items[:max_items]`  (None and 0 are falsy)
ApplyLimit(items, mi) ==
    IF mi = NoneInt \/ mi = 0 THEN items
    ELSE SubSeq(items, 1, Min(mi, Len(items)))

InitStats == [total_items |-> 0, successful_scrapes |-> 0, failed_scrapes |-> 0,
              server_errors |-> 0, success_rate |-> 0]

\* a local that no statement has assigned yet
Unassigned == [kind |-> None, len |-> 0, phrases |-> {}, n |-> 0]

NoItem == [title |-> 0, url |-> 0, item_type |-> None, main_content |-> Unassigned]

ScrapeInit ==
    /\ max_retries \in 0..MaxRetriesBound
    /\ retry_delays \in DelaySchedules
    /\ max_items \in {NoneInt} \cup (0..MaxPageItems)
    /\ filter_type \in {None} \cup ItemTypes
    /\ pc = "start"
    /\ swr_caller = None
    /\ swr_attempt = 0
    /\ swr_fetches = 0
    /\ swr_waits = <<>>
    /\ swr_last = None
    /\ swr_result = Pending
    /\ main_items = <<>>
    /\ i = 0
    /\ sid_attempt = 0
    /\ sid_fetches = 0
    /\ sid_waits = <<>>
    /\ sid_bad = 0
    /\ sid_outcome = None
    /\ sid_item = NoItem
    /\ main_content = Unassigned
    /\ detailed_items = <<>>
    /\ stats = InitStats
    /\ polite_sleeps = 0

ScrapeIdle ==
    /\ max_retries = 0
    /\ retry_delays = <<1, 2, 5>>
    /\ max_items = NoneInt
    /\ filter_type = None
    /\ pc = "idle"
    /\ swr_caller = None
    /\ swr_attempt = 0
    /\ swr_fetches = 0
    /\ swr_waits = <<>>
    /\ swr_last = None
    /\ swr_result = Pending
    /\ main_items = <<>>
    /\ i = 0
    /\ sid_attempt = 0
    /\ sid_fetches = 0
    /\ sid_waits = <<>>
    /\ sid_bad = 0
    /\ sid_outcome = None
    /\ sid_item = NoItem
    /\ main_content = Unassigned
    /\ detailed_items = <<>>
    /\ stats = InitStats
    /\ polite_sleeps = 0

\* Entry of scrape_with_retry: the locals of a fresh call.
CallScrapeWithRetry(caller) ==
    /\ pc' = "swr"
    /\ swr_caller' = caller
    /\ swr_attempt' = 0
    /\ swr_fetches' = 0
    /\ swr_waits' = <<>>
    /\ swr_last' = None
    /\ swr_result' = Pending

\* scrape_detailed_items up to `main_items = await scrape_main_page(config)`,
\* which starts with `result = await scrape_with_retry(base_url, config)`.
StartSession ==
    /\ pc = "start"
    /\ CallScrapeWithRetry("main")
    /\ UNCHANGED <<max_retries, retry_delays, max_items, filter_type, main_items, i,
                   sid_attempt, sid_fetches, sid_waits, sid_bad, sid_outcome, sid_item, main_content,
                   detailed_items, stats, polite_sleeps>>
    /\ UNCHANGED notScrapeVars

\* One iteration of the for loop of scrape_with_retry (scraping.py:45-67), and
\* the `return None` after the loop when it was the last one.
SwrAttempt ==
    /\ pc = "swr"
    /\ \E out \in FetchOutcomes :
        /\ swr_last' = out
        /\ swr_fetches' = swr_fetches + 1
        /\ sid_fetches' = IF swr_caller = "item" THEN sid_fetches + 1 ELSE sid_fetches
        /\ IF FetchSucceeded(out)
           THEN /\ swr_result' = "ok"
                /\ pc' = IF swr_caller = "main" THEN "main_parse" ELSE "sid_after"
                /\ UNCHANGED <<swr_attempt, swr_waits>>
           ELSE /\ swr_waits' = IF WaitBeforeRetry(swr_attempt)
                                THEN Append(swr_waits, RetryDelay(swr_attempt))
                                ELSE swr_waits
                /\ IF swr_attempt + 1 < AttemptsRange
                   THEN /\ swr_attempt' = swr_attempt + 1
                        /\ UNCHANGED <<pc, swr_result>>
                   ELSE /\ swr_result' = None
                        /\ pc' = IF swr_caller = "main" THEN "main_parse" ELSE "sid_after"
                        /\ UNCHANGED swr_attempt
    /\ UNCHANGED <<max_retries, retry_delays, max_items, filter_type, swr_caller,
                   main_items, i, sid_attempt, sid_waits, sid_bad, sid_outcome, sid_item, main_content,
                   detailed_items, stats, polite_sleeps>>
    /\ UNCHANGED notScrapeVars

\* Locals of a fresh scrape_item_details call.
EnterItemDetails ==
    /\ sid_attempt' = 0
    /\ sid_fetches' = 0
    /\ sid_waits' = <<>>
    /\ sid_bad' = 0
    /\ sid_outcome' = None
    /\ sid_item' = NoItem
    /\ main_content' = Unassigned

\* Rest of scrape_main_page (scraping.py:95-127) and scrape_detailed_items up to
\* the start of the for loop (pipeline.py:282-303).
MainPageParsed ==
    /\ pc = "main_parse"
    /\ \E page \in PageListings :
        LET scraped == IF swr_result = None THEN <<>> ELSE page
            selected == ApplyLimit(ApplyFilter(scraped, filter_type), max_items)
        IN  /\ main_items' = selected
            /\ stats' = [stats EXCEPT !.total_items = Len(selected)]
            /\ pc' = IF Len(selected) = 0 THEN "finish" ELSE "sid_try"
    /\ i' = 1
    /\ detailed_items' = <<>>
    /\ EnterItemDetails
    /\ UNCHANGED <<max_retries, retry_delays, max_items, filter_type, swr_caller,
                   swr_attempt, swr_fetches, swr_waits, swr_last, swr_result, polite_sleeps>>
    /\ UNCHANGED notScrapeVars

\* scrape_item_details, start of one iteration of its for loop:
\* `result = await scrape_with_retry(main_item.url, config)` (scraping.py:176-179).
\* The main_content of an earlier iteration is dead here: the iteration assigns
\* it (scraping.py:187) before it reads it, or leaves by an exception.
SidCallFetch ==
    /\ pc = "sid_try"
    /\ CallScrapeWithRetry("item")
    /\ main_content' = Unassigned
    /\ UNCHANGED <<max_retries, retry_delays, max_items, filter_type, main_items, i,
                   sid_attempt, sid_fetches, sid_waits, sid_bad, sid_outcome, sid_item,
                   detailed_items, stats, polite_sleeps>>
    /\ UNCHANGED notScrapeVars

\* scrape_item_details, rest of the iteration (scraping.py:180-242): the result
\* check, extraction, validation, the except handler and the return after the
\* loop.
SidAfterFetch ==
    /\ pc = "sid_after"
    /\ \E out \in ExtractOutcomes :
        LET raised == \/ swr_result = None
                      \/ out = ExtractException
                      \/ ~ is_valid_content(out)
        IN  /\ main_content' = IF swr_result = None \/ out = ExtractException
                               THEN main_content ELSE out
            /\ IF ~ raised
               THEN /\ sid_item' = KnowledgeBaseItem(main_items[i], out)
                    /\ sid_outcome' = "returned"
                    /\ pc' = "record"
                    /\ UNCHANGED <<sid_attempt, sid_waits, sid_bad>>
               ELSE /\ sid_bad' = sid_bad + 1
                    /\ sid_waits' = IF WaitBeforeRetry(sid_attempt)
                                    THEN Append(sid_waits, RetryDelay(sid_attempt))
                                    ELSE sid_waits
                    /\ IF sid_attempt + 1 < AttemptsRange
                       THEN /\ sid_attempt' = sid_attempt + 1
                            /\ pc' = "sid_try"
                            /\ UNCHANGED <<sid_item, sid_outcome>>
                       ELSE /\ sid_item' = FailedItem(main_items[i])
                            /\ sid_outcome' = "returned"
                            /\ pc' = "record"
                            /\ UNCHANGED sid_attempt
    /\ UNCHANGED <<max_retries, retry_delays, max_items, filter_type, swr_caller,
                   swr_attempt, swr_fetches, swr_waits, swr_last, swr_result,
                   main_items, i, sid_fetches, detailed_items, stats, polite_sleeps>>
    /\ UNCHANGED notScrapeVars

AppendDetailed_DropsFailed(items, outcome, item, main_item) ==
    IF outcome = "returned" /\ item.main_content.kind = "body" THEN Append(items, item)
    ELSE items

\* detailed_items after the try/except of the loop body (pipeline.py:319, 325-330)
AppendDetailed(items, outcome, item, main_item) ==
    IF outcome = "returned" THEN Append(items, item)
    ELSE Append(items, KnowledgeBaseItem(main_item, FailedRaise))

CountOutcome_CountsTwice(st, outcome, item) ==
    IF outcome = "returned"
    THEN IF ServerErrorPhrase \in item.main_content.phrases
         THEN [st EXCEPT !.server_errors = @ + 1, !.failed_scrapes = @ + 1]
         ELSE [st EXCEPT !.successful_scrapes = @ + 1, !.failed_scrapes = @ + 1]
    ELSE [st EXCEPT !.failed_scrapes = @ + 1]

\* stats after the try/except of the loop body (pipeline.py:311-317, 322)
CountOutcome(st, outcome, item) ==
    IF outcome = "returned"
    THEN IF ServerErrorPhrase \in item.main_content.phrases
         THEN [st EXCEPT !.server_errors = @ + 1, !.failed_scrapes = @ + 1]
         ELSE [st EXCEPT !.successful_scrapes = @ + 1]
    ELSE [st EXCEPT !.failed_scrapes = @ + 1]

PoliteDelayDue_AfterEveryItem(k, n) == k <= n

\* `if i < len(main_items):` guarding asyncio.sleep(stats['request_delay'])
\* (pipeline.py:333-335)
PoliteDelayDue(k, n) == k < n

\* Rest of the loop body of scrape_detailed_items once scrape_item_details has
\* ended (pipeline.py:310-335), and the step to the next item.
RecordItem ==
    /\ pc = "record"
    /\ stats' = CountOutcome(stats, sid_outcome, sid_item)
    /\ detailed_items' = AppendDetailed(detailed_items, sid_outcome, sid_item, main_items[i])
    /\ polite_sleeps' = IF PoliteDelayDue(i, Len(main_items))
                        THEN polite_sleeps + 1 ELSE polite_sleeps
    /\ i' = i + 1
    /\ pc' = IF i < Len(main_items) THEN "sid_try" ELSE "finish"
    /\ sid_attempt' = 0
    /\ sid_fetches' = IF i < Len(main_items) THEN 0 ELSE sid_fetches
    /\ sid_waits' = IF i < Len(main_items) THEN <<>> ELSE sid_waits
    /\ sid_bad' = IF i < Len(main_items) THEN 0 ELSE sid_bad
    /\ main_content' = IF i < Len(main_items) THEN Unassigned ELSE main_content
    /\ UNCHANGED <<sid_outcome, sid_item>>
    /\ UNCHANGED <<max_retries, retry_delays, max_items, filter_type, swr_caller,
                   swr_attempt, swr_fetches, swr_waits, swr_last, swr_result, main_items>>
    /\ UNCHANGED notScrapeVars

\* pipeline.py:337-338  final statistics (success_rate as a whole percentage)
FinishSession ==
    /\ pc = "finish"
    /\ stats' = [stats EXCEPT !.success_rate =
                    IF stats.total_items > 0
                    THEN (stats.successful_scrapes * 100) \div stats.total_items
                    ELSE 0]
    /\ pc' = "done"
    /\ UNCHANGED <<max_retries, retry_delays, max_items, filter_type, swr_caller,
                   swr_attempt, swr_fetches, swr_waits, swr_last, swr_result,
                   main_items, i, sid_attempt, sid_fetches, sid_waits, sid_bad,
                   sid_outcome, sid_item, main_content, detailed_items, polite_sleeps>>
    /\ UNCHANGED notScrapeVars


(***************************************************************************)
(* Text chunking: split_text_into_chunks (utils.py) and                    *)
(* create_chunks_from_item (rag_chunking.py).  Positions are 0-based as in *)
(* the code.                                                               *)
(***************************************************************************)
RECURSIVE StringsUpTo(_, _)
\* All strings over the characters C of length at most n.
StringsUpTo(C, n) ==
    IF n = 0 THEN {<<>>}
    ELSE LET shorter == StringsUpTo(C, n - 1)
         IN  shorter \cup { Append(w, c) : w \in { v \in shorter : Len(v) = n - 1 }, c \in C }

\* Characters of the texts handed to split_text_into_chunks directly.
TextChars == {"a", " ", "."}

\* Characters of an item's main_content.
ItemChars == {"a", " ", "'"}

\* Characters str.strip() removes.
Whitespace == {" ", "\n", "\t", "\r"}

RECURSIVE LStrip(_)
LStrip(s) == IF s # <<>> /\ Head(s) \in Whitespace THEN LStrip(Tail(s)) ELSE s

RECURSIVE RStrip(_)
RStrip(s) ==
    IF s # <<>> /\ s[Len(s)] \in Whitespace THEN RStrip(SubSeq(s, 1, Len(s) - 1)) ELSE s

\* str.strip()
Strip(s) == RStrip(LStrip(s))

\* A slice bound k of a sequence of length n, as Python resolves it.
SliceIndex(k, n) == IF k < 0 THEN Max(k + n, 0) ELSE Min(k, n)

\* s[a:b]
Slice(s, a, b) == SubSeq(s, SliceIndex(a, Len(s)) + 1, SliceIndex(b, Len(s)))

\* s.rfind(c) for a single character c
RFind(s, c) ==
    LET hits == { k \in 1..Len(s) : s[k] = c }
    IN  IF hits = {} THEN -1 ELSE (CHOOSE k \in hits : \A h \in hits : h <= k) - 1

\* s.rfind('\n\n')
RFindParagraph(s) ==
    LET hits == { k \in 1..(Len(s) - 1) : s[k] = "\n" /\ s[k + 1] = "\n" }
    IN  IF hits = {} THEN -1 ELSE (CHOOSE k \in hits : \A h \in hits : h <= k) - 1

\* utils.py:185
sentence_endings == <<".", "!", "?">>

RECURSIVE SentenceBreak(_, _, _, _)
\* utils.py:186-192: the for loop over sentence_endings from index k on; the
\* first ending whose last occurrence lies beyond 70% of max_chunk_size decides.
SentenceBreak(chunk_text, cur, end_pos, k) ==
    IF k > Len(sentence_endings) THEN end_pos
    ELSE LET pos == RFind(chunk_text, sentence_endings[k])
         IN  IF 10 * pos > 7 * max_chunk_size THEN cur + pos + 1
             ELSE SentenceBreak(chunk_text, cur, end_pos, k + 1)

\* utils.py:181-198: the break position of a non-final window
BreakPos(cur, end_pos) ==
    LET chunk_text == Slice(text, cur, end_pos)
        bp == SentenceBreak(chunk_text, cur, end_pos, 1)
        pos == RFindParagraph(chunk_text)
    IN  IF bp = end_pos /\ 2 * pos > max_chunk_size
        THEN cur + pos + 2
        ELSE bp

KeepChunk_NonEmpty(chunk) == Len(chunk) > 0

\* `if len(chunk) >= min_chunk_size:` (utils.py:177, 202)
KeepChunk(chunk) == Len(chunk) >= min_chunk_size

NextPos_NoClamp(bp, cur) == bp - overlap

\* utils.py:206  current_pos = max(break_pos - overlap, current_pos + 1)
NextPos(bp, cur) == Max(bp - overlap, cur + 1)

\* The chunk sizes and overlaps tried.
MaxSizes == {1, 2, MaxChunkBound}

MinSizes == {0, 1, 3}

Overlaps == {0, 2, MaxOverlapBound}

\* A direct call split_text_into_chunks(text, max_chunk_size, min_chunk_size, overlap).
DirectCallInit ==
    /\ ck_caller = "direct"
    /\ ck_pc = "call"
    /\ item_content = <<>>
    /\ text \in StringsUpTo(TextChars, MaxTextLen)
    /\ max_chunk_size \in MaxSizes
    /\ min_chunk_size \in MinSizes
    /\ overlap \in Overlaps

\* A call create_chunks_from_item(item, config): max_chunk_size holds
\* rag_config['target_chunk_size'] and min_chunk_size rag_config['min_chunk_size'].
ItemCallInit ==
    /\ ck_caller = "item"
    /\ ck_pc = "item_call"
    /\ item_content \in StringsUpTo(ItemChars, MaxItemTextLen)
    /\ text = <<>>
    /\ max_chunk_size \in MaxSizes
    /\ min_chunk_size \in MinSizes
    /\ overlap = 0

\* Characters of the texts whose windows hold several break candidates.
BreakChars == {"a", ".", "!", "?", "\n"}

\* A direct call on a text one character longer than the window, so that the
\* first window is not the final one.
BreakCallInit ==
    /\ ck_caller = "direct"
    /\ ck_pc = "call"
    /\ item_content = <<>>
    /\ text \in [1..MaxTextLen -> BreakChars]
    /\ max_chunk_size = MaxTextLen - 1
    /\ min_chunk_size = 1
    /\ overlap = 0
    /\ current_pos = 0
    /\ prev_pos = 0
    /\ break_pos = 0
    /\ iterations = 0
    /\ chunks = <<>>
    /\ item_chunks = <<>>

ChunkInit ==
    /\ DirectCallInit \/ ItemCallInit
    /\ current_pos = 0
    /\ prev_pos = 0
    /\ break_pos = 0
    /\ iterations = 0
    /\ chunks = <<>>
    /\ item_chunks = <<>>

\* utils.py:164-168  the early return and the loop's initialisation
SplitStart ==
    /\ ck_pc = "call"
    /\ ck_pc' = IF text = <<>> \/ Len(Strip(text)) < min_chunk_size
                THEN "returned" ELSE "loop"
    /\ chunks' = <<>>
    /\ current_pos' = 0
    /\ UNCHANGED <<ck_caller, item_content, text, max_chunk_size, min_chunk_size,
                   overlap, prev_pos, break_pos, iterations, item_chunks>>
    /\ UNCHANGED notChunkVars

\* utils.py:170-208  the loop test and one iteration of the while loop
SplitIterate ==
    /\ ck_pc = "loop"
    /\ IF ~ (current_pos < Len(text))
       THEN /\ ck_pc' = "returned"
            /\ UNCHANGED <<chunks, current_pos, prev_pos, break_pos, iterations>>
       ELSE LET end_pos == current_pos + max_chunk_size
            IN  /\ prev_pos' = current_pos
                /\ iterations' = iterations + 1
                /\ IF end_pos >= Len(text)
                   THEN LET chunk == Strip(Slice(text, current_pos, Len(text)))
                        IN  /\ chunks' = IF KeepChunk(chunk) THEN Append(chunks, chunk) ELSE chunks
                            /\ ck_pc' = "returned"
                            /\ UNCHANGED <<current_pos, break_pos>>
                   ELSE LET bp == BreakPos(current_pos, end_pos)
                            chunk == Strip(Slice(text, current_pos, bp))
                        IN  /\ break_pos' = bp
                            /\ chunks' = IF KeepChunk(chunk) THEN Append(chunks, chunk) ELSE chunks
                            /\ current_pos' = NextPos(bp, current_pos)
                            /\ UNCHANGED ck_pc
    /\ UNCHANGED <<ck_caller, item_content, text, max_chunk_size, min_chunk_size,
                   overlap, item_chunks>>
    /\ UNCHANGED notChunkVars

RECURSIVE ReplaceChar(_, _, _)
\* s.replace(c, r) for a single character c and a string r
ReplaceChar(s, c, r) ==
    IF s = <<>> THEN <<>>
    ELSE (IF Head(s) = c THEN r ELSE <<Head(s)>>) \o ReplaceChar(Tail(s), c, r)

RECURSIVE ReplaceCRLF(_)
\* s.replace('\r\n', '\n')
ReplaceCRLF(s) ==
    IF Len(s) < 2 THEN s
    ELSE IF s[1] = "\r" /\ s[2] = "\n" THEN <<"\n">> \o ReplaceCRLF(SubSeq(s, 3, Len(s)))
         ELSE <<s[1]>> \o ReplaceCRLF(Tail(s))

RECURSIVE CollapseRuns(_, _)
\* re.sub(c + '+', c, s): every run of the character c becomes a single c
CollapseRuns(s, c) ==
    IF Len(s) < 2 THEN s
    ELSE IF s[1] = c /\ s[2] = c THEN CollapseRuns(Tail(s), c)
         ELSE <<s[1]>> \o CollapseRuns(Tail(s), c)

\* utils.py:14-40
clean_text_for_rag(t) ==
    IF t = <<>> THEN <<>>
    ELSE LET t1 == ReplaceChar(t, "\"", <<>>)
             t2 == ReplaceChar(t1, "'", <<>>)
             t3 == ReplaceChar(t2, "\\", <<"/">>)
             t4 == ReplaceChar(t3, "\t", <<" ">>)
             t5 == ReplaceChar(ReplaceCRLF(t4), "\r", <<"\n">>)
             t6 == ReplaceChar(t5, "\n", <<" ">>)
             t7 == CollapseRuns(t6, " ")
         IN  Strip(t7)

\* overlap=200 in the call of split_text_into_chunks (rag_chunking.py:90)
ItemOverlap == 200

\* f"Page: {item.title}. URL: {item.url}" for an item titled "t" at url "u"
FallbackContent ==
    <<"P", "a", "g", "e", ":", " ", "t", ".", " ", "U", "R", "L", ":", " ", "u">>

\* create_chunk_dict, reduced to the fields the chunking decides
create_chunk_dict(chunk_number, content) ==
    [chunk_number |-> chunk_number, content |-> content, content_length |-> Len(content)]

RECURSIVE ChunkDicts(_, _, _)
\* rag_chunking.py:94-100: the loop over text_chunks, chunk_id counting from n
ChunkDicts(text_chunks, n, acc) ==
    IF text_chunks = <<>> THEN acc
    ELSE IF Len(Strip(Head(text_chunks))) >= min_chunk_size
         THEN ChunkDicts(Tail(text_chunks), n + 1,
                         Append(acc, create_chunk_dict(n, Head(text_chunks))))
         ELSE ChunkDicts(Tail(text_chunks), n, acc)

\* rag_chunking.py:103  the guard of the single-chunk fallback
WholeItemFallback(created, cleaned_content) ==
    created = <<>> /\ Len(Strip(cleaned_content)) >= min_chunk_size

\* create_chunks_from_item up to the call of split_text_into_chunks
\* (rag_chunking.py:63-91), with the return for an item without main content.
CreateChunksBegin ==
    /\ ck_pc = "item_call"
    /\ IF item_content = <<>> \/ Strip(item_content) = <<>>
       THEN /\ item_chunks' = IF Len(Strip(FallbackContent)) >= min_chunk_size
                              THEN <<create_chunk_dict(1, FallbackContent)>>
                              ELSE <<>>
            /\ ck_pc' = "done"
            /\ UNCHANGED <<text, overlap>>
       ELSE /\ text' = clean_text_for_rag(item_content)
            /\ overlap' = ItemOverlap
            /\ ck_pc' = "call"
            /\ UNCHANGED item_chunks
    /\ UNCHANGED <<ck_caller, item_content, max_chunk_size, min_chunk_size,
                   current_pos, prev_pos, break_pos, iterations, chunks>>
    /\ UNCHANGED notChunkVars

\* create_chunks_from_item after split_text_into_chunks returned
\* (rag_chunking.py:93-109)
CreateChunksFinish ==
    /\ ck_pc = "returned"
    /\ ck_caller = "item"
    /\ LET created == ChunkDicts(chunks, 1, <<>>)
       IN  item_chunks' = IF WholeItemFallback(created, text)
                          THEN Append(created, create_chunk_dict(1, text))
                          ELSE created
    /\ ck_pc' = "done"
    /\ UNCHANGED <<ck_caller, item_content, text, max_chunk_size, min_chunk_size,
                   overlap, current_pos, prev_pos, break_pos, iterations, chunks>>
    /\ UNCHANGED notChunkVars

(***************************************************************************)
(* Document identifiers: normalize_document_id (utils.py:80-125), applied  *)
(* when a chunk id is created and again by validate_and_fix_documents.     *)
(***************************************************************************)
\* The combining acute accent U+0301.
CombiningAcute == "U+0301"

\* The precomposed letter e-acute U+00E9.
EAcute == "U+00E9"

LowerCase == {"a", "b", "c", "d", "e", "f", "g", "h", "i", "j", "k", "l", "m",
              "n", "o", "p", "q", "r", "s", "t", "u", "v", "w", "x", "y", "z"}

UpperCase == {"A", "B", "C", "D", "E", "F", "G", "H", "I", "J", "K", "L", "M",
              "N", "O", "P", "Q", "R", "S", "T", "U", "V", "W", "X", "Y", "Z"}

Letters == LowerCase \cup UpperCase

DecimalDigits == <<"0", "1", "2", "3", "4", "5", "6", "7", "8", "9">>

Digits == { DecimalDigits[k] : k \in 1..10 }

\* [a-zA-Z0-9_\-=] over the characters of the model
AllowedIdChars == Letters \cup Digits \cup {"_", "-", "="}

\* unicodedata.normalize('NFKD', text): precomposed letters are decomposed
NFKD(s) == ReplaceChar(s, EAcute, <<"e", CombiningAcute>>)

\* ''.join(c for c in text if not unicodedata.combining(c))
DropCombining(s) == SelectSeq(s, LAMBDA c : c # CombiningAcute)

RECURSIVE MapChars(_, _, _)
\* every character of s that is in C replaced by r, the others kept
MapChars(s, C, r) ==
    IF s = <<>> THEN <<>>
    ELSE <<IF Head(s) \in C THEN r ELSE Head(s)>> \o MapChars(Tail(s), C, r)

RECURSIVE SubForbidden(_)
\* re.sub(r'[^a-zA-Z0-9_\-=]', '_', text)
SubForbidden(s) ==
    IF s = <<>> THEN <<>>
    ELSE <<IF Head(s) \in AllowedIdChars THEN Head(s) ELSE "_">> \o SubForbidden(Tail(s))

RECURSIVE ReplacePairs(_)
CollapseUnderscores_PairsOnce(s) == ReplacePairs(s)

\* text.replace('__', '_'): one left-to-right pass over non-overlapping pairs
ReplacePairs(s) ==
    IF Len(s) < 2 THEN s
    ELSE IF s[1] = "_" /\ s[2] = "_" THEN <<"_">> \o ReplacePairs(SubSeq(s, 3, Len(s)))
         ELSE <<s[1]>> \o ReplacePairs(Tail(s))

\* re.sub(r'_+', '_', text)
CollapseUnderscores(s) == CollapseRuns(s, "_")

RECURSIVE LStripUnderscores(_)
LStripUnderscores(s) ==
    IF s # <<>> /\ Head(s) = "_" THEN LStripUnderscores(Tail(s)) ELSE s

RECURSIVE RStripUnderscores(_)
RStripUnderscores(s) ==
    IF s # <<>> /\ s[Len(s)] = "_" THEN RStripUnderscores(SubSeq(s, 1, Len(s) - 1)) ELSE s

StripUnderscores_LeadingOnly(s) == LStripUnderscores(s)

\* text.strip('_')
StripUnderscores(s) == RStripUnderscores(LStripUnderscores(s))

Unknown == <<"u", "n", "k", "n", "o", "w", "n">>

DocPrefix == <<"d", "o", "c", "_">>

\* str.isalnum() of one character
IsAlnum(c) == c \in Letters \cup Digits

normalize_document_id(t) ==
    IF t = <<>> THEN Unknown
    ELSE LET t1 == DropCombining(NFKD(t))
             t2 == MapChars(t1, {" "}, "_")
             t3 == MapChars(t2, {"(", ")"}, "_")
             t4 == MapChars(t3, {"[", "]"}, "_")
             t5 == MapChars(t4, {"{", "}"}, "_")
             t6 == SubForbidden(t5)
             t7 == CollapseUnderscores(t6)
             t8 == StripUnderscores(t7)
         IN  IF t8 = <<>> THEN Unknown
             ELSE IF ~ IsAlnum(t8[1]) THEN DocPrefix \o t8
             ELSE t8

\* Characters of the strings handed to normalize_document_id.
IdInputChars == {"a", "1", EAcute, CombiningAcute, " ", "(", "!", "_", "-"}

IdInit ==
    /\ id_pc = "input"
    /\ id_input \in StringsUpTo(IdInputChars, MaxIdLen)
    /\ id_once = <<>>
    /\ id_twice = <<>>

\* The id of a chunk is made from its title: create_chunk_id (utils.py:142)
NormalizeTitle ==
    /\ id_pc = "input"
    /\ id_once' = normalize_document_id(id_input)
    /\ id_pc' = "created"
    /\ UNCHANGED <<id_input, id_twice>>
    /\ UNCHANGED notIdVars

\* validate_and_fix_documents normalizes the stored id again (upload.py:56-62)
NormalizeStoredId ==
    /\ id_pc = "created"
    /\ id_twice' = normalize_document_id(id_once)
    /\ id_pc' = "uploaded"
    /\ UNCHANGED <<id_input, id_once>>
    /\ UNCHANGED notIdVars

(***************************************************************************)
(* create_chunk_id (src/src/rag_scraping/utils.py:128-143).                *)
(***************************************************************************)
RECURSIVE Decimal(_)
\* str(n) for n >= 0
Decimal(n) ==
    IF n < 10 THEN <<DecimalDigits[n + 1]>>
    ELSE Decimal(n \div 10) \o <<DecimalDigits[(n % 10) + 1]>>

ZeroPad2_NoPad(n) == Decimal(n)

\* f"{chunk_number:02d}": at least two digits, padded with zeros on the left
ZeroPad2(n) == IF n < 10 THEN <<"0">> \o Decimal(n) ELSE Decimal(n)

ChunkInfix == <<"_", "c", "h", "u", "n", "k", "_">>

create_chunk_id(title, chunk_number) ==
    LET clean_title == normalize_document_id(title)
    IN  clean_title \o ChunkInfix \o ZeroPad2(chunk_number)

\* 'Café (Versnellingsplan)!'
CafeTitle == <<"C", "a", "f", EAcute, " ", "(", "V", "e", "r", "s", "n", "e", "l", "l",
               "i", "n", "g", "s", "p", "l", "a", "n", ")", "!">>

\* Characters of the short titles handed to create_chunk_id.
TitleChars == {"a", "-", " ", "(", EAcute}

Titles == StringsUpTo(TitleChars, MaxTitleLen) \cup {CafeTitle}

\* Chunk numbers: the first ones, and one of three digits.
ChunkNumbers == (1..MaxChunkNumber) \cup {100}

ChunkIdInit ==
    /\ cid_pc = "call"
    /\ cid_title \in Titles
    /\ cid_number \in ChunkNumbers
    /\ cid_result = <<>>

CreateChunkId ==
    /\ cid_pc = "call"
    /\ cid_result' = create_chunk_id(cid_title, cid_number)
    /\ cid_pc' = "returned"
    /\ UNCHANGED <<cid_title, cid_number>>
    /\ UNCHANGED notChunkIdVars

ChunkIdIdle ==
    /\ cid_pc = "idle"
    /\ cid_title = <<>>
    /\ cid_number = 0
    /\ cid_result = <<>>

(***************************************************************************)
(* One pipeline run: create_rag_chunks over all items, process_all_pdfs    *)
(* over all PDFs of all items, and the concatenation of both lists         *)
(* (pipeline.py:443-453, rag_chunking.py:18-44, pdf_processing.py:346-376).*)
(* What matters of a document here is how many chunks it yields.           *)
(***************************************************************************)
\* item.title of the k-th detailed item: 't1', 't2', ...
ItemTitle(k) == <<"t">> \o Decimal(k)

\* How many chunks one page or one PDF yields.
ChunkCounts == {0, 1, 2}

PdfSuffix == <<"_", "p", "d", "f">>

\* create_chunks_from_item: chunk_id runs from 1, one dict per kept chunk
PageChunkDicts(k, cnt) ==
    [c \in 1..cnt |-> [id |-> create_chunk_id(ItemTitle(k), c),
                       source_type |-> "page", item |-> k, sourcefile |-> 0,
                       chunk_number |-> c]]

\* create_pdf_chunks: chunk_id runs from 1 within the PDF (pdf_processing.py:257),
\* 'id': create_chunk_id(f"{item.title}_pdf", chunk_id)
PdfChunkDicts(k, j, cnt) ==
    [c \in 1..cnt |-> [id |-> create_chunk_id(ItemTitle(k) \o PdfSuffix, c),
                       source_type |-> "pdf", item |-> k, sourcefile |-> j,
                       chunk_number |-> c]]

\* What process_all_pdfs meets for one pdf_url.
PdfOutcomes == {"no_url", "download_failed", "no_content", "extracted"}

RunInit ==
    /\ run_pc = "page_chunks"
    /\ n_items \in 1..MaxRunItems
    /\ include_pdfs \in BOOLEAN
    /\ run_i = 1
    /\ run_npdfs = 0
    /\ run_j = 1
    /\ page_chunks = <<>>
    /\ pdf_chunks = <<>>
    /\ all_chunks = <<>>
    /\ pdf_outcome = None
    /\ raw_items = <<>>

\* create_rag_chunks, one iteration of `for item in items`
CreateRagChunksItem ==
    /\ run_pc = "page_chunks"
    /\ run_i <= n_items
    /\ \E cnt \in ChunkCounts :
          page_chunks' = page_chunks \o PageChunkDicts(run_i, cnt)
    /\ run_i' = run_i + 1
    /\ UNCHANGED <<run_pc, n_items, include_pdfs, run_npdfs, run_j, pdf_chunks, all_chunks,
                   pdf_outcome, raw_items>>
    /\ UNCHANGED notRunVars

\* run_full_pipeline between step 2 and step 3
PageChunksDone ==
    /\ run_pc = "page_chunks"
    /\ run_i > n_items
    /\ run_pc' = IF include_pdfs THEN "pdf_item" ELSE "combine"
    /\ run_i' = 1
    /\ UNCHANGED <<n_items, include_pdfs, run_npdfs, run_j, page_chunks, pdf_chunks, all_chunks,
                   pdf_outcome, raw_items>>
    /\ UNCHANGED notRunVars

\* process_all_pdfs, `for item in items`: the item's pdfs list is read
ProcessPdfsOfItem ==
    /\ run_pc = "pdf_item"
    /\ IF run_i > n_items
         THEN /\ run_pc' = "combine"
              /\ UNCHANGED <<run_i, run_npdfs, run_j>>
         ELSE \E n \in 0..MaxPdfsPerItem :
                /\ run_npdfs' = n
                /\ run_j' = 1
                /\ IF n = 0
                     THEN run_pc' = "pdf_item" /\ run_i' = run_i + 1
                     ELSE run_pc' = "pdf_url" /\ run_i' = run_i
    /\ UNCHANGED <<n_items, include_pdfs, page_chunks, pdf_chunks, all_chunks, pdf_outcome, raw_items>>
    /\ UNCHANGED notRunVars

PdfSkipped_DownloadOnly(out) == out \in {"no_url", "download_failed"}

\* the three `continue`s of the loop body (pdf_processing.py:354-361): an empty
\* url, download_pdf returned None, extract_pdf_content_with_images returned None
PdfSkipped(out) == out \in {"no_url", "download_failed", "no_content"}

\* process_all_pdfs, one iteration of `for pdf_url in item.pdfs`
ProcessPdf ==
    /\ run_pc = "pdf_url"
    /\ \E out \in PdfOutcomes :
          /\ pdf_outcome' = out
          /\ IF PdfSkipped(out)
             THEN pdf_chunks' = pdf_chunks /\ raw_items' = raw_items
             ELSE /\ raw_items' = Append(raw_items, <<run_i, run_j>>)
                  /\ \E cnt \in ChunkCounts :
                        pdf_chunks' = pdf_chunks \o PdfChunkDicts(run_i, run_j, cnt)
    /\ IF run_j < run_npdfs
         THEN run_j' = run_j + 1 /\ UNCHANGED <<run_pc, run_i>>
         ELSE run_pc' = "pdf_item" /\ run_i' = run_i + 1 /\ run_j' = 1
    /\ UNCHANGED <<n_items, include_pdfs, run_npdfs, page_chunks, all_chunks>>
    /\ UNCHANGED notRunVars

\* all_chunks = page_chunks + pdf_chunks
CombineChunks ==
    /\ run_pc = "combine"
    /\ all_chunks' = page_chunks \o pdf_chunks
    /\ run_pc' = "done"
    /\ UNCHANGED <<n_items, include_pdfs, run_i, run_npdfs, run_j, page_chunks, pdf_chunks,
                   pdf_outcome, raw_items>>
    /\ UNCHANGED notRunVars

\* run_full_pipeline between step 1 and step 2 (pipeline.py:440-444):
\* scrape_detailed_items has returned, create_rag_chunks starts on its list.
BeginChunking ==
    /\ pc = "done"
    /\ run_pc = "idle"
    /\ run_pc' = "page_chunks"
    /\ n_items' = Len(detailed_items)
    /\ run_i' = 1
    /\ UNCHANGED <<include_pdfs, run_npdfs, run_j, page_chunks, pdf_chunks, all_chunks,
                   pdf_outcome, raw_items>>
    /\ UNCHANGED notRunVars

\* process_all_pdfs called on its own (pipeline.py:414, tests/test_pdf_pipeline.py:41)
PdfBatchInit ==
    /\ run_pc = "pdf_item"
    /\ n_items \in 0..MaxRunItems
    /\ include_pdfs = TRUE
    /\ run_i = 1
    /\ run_npdfs = 0
    /\ run_j = 1
    /\ page_chunks = <<>>
    /\ pdf_chunks = <<>>
    /\ all_chunks = <<>>
    /\ pdf_outcome = None
    /\ raw_items = <<>>

\* process_all_pdfs after its loops: the three lists are saved and returned
\* (pdf_processing.py:368-376)
ReturnRagReady ==
    /\ run_pc = "combine"
    /\ run_pc' = "returned"
    /\ UNCHANGED <<n_items, include_pdfs, run_i, run_npdfs, run_j, page_chunks, pdf_chunks,
                   all_chunks, pdf_outcome, raw_items>>
    /\ UNCHANGED notRunVars

RunIdle ==
    /\ run_pc = "idle"
    /\ n_items = 0
    /\ include_pdfs = FALSE
    /\ run_i = 0
    /\ run_npdfs = 0
    /\ run_j = 0
    /\ page_chunks = <<>>
    /\ pdf_chunks = <<>>
    /\ all_chunks = <<>>
    /\ pdf_outcome = None
    /\ raw_items = <<>>

(***************************************************************************)
(* Content extraction: VersnellingsplanScraper._extract_content_fallback   *)
(* (pages.py:533-616) and extract_main_content (scraping.py:245-294).      *)
(* A page is described by the length of the text each strategy finds.      *)
(***************************************************************************)
\* the methods of _extract_content_fallback, in the order they are tried
FallbackMethods == <<"article", "main-content", "entry-content", "post-content",
                     "paragraphs", "text-divs", "all-text">>

\* method_priority (pages.py:599-607)
method_priority(m) ==
    CASE m = "article"       -> 1
      [] m = "entry-content" -> 2
      [] m = "post-content"  -> 3
      [] m = "main-content"  -> 4
      [] m = "paragraphs"    -> 5
      [] m = "text-divs"     -> 6
      [] m = "all-text"      -> 7
      [] OTHER               -> 0

\* a method's text becomes a candidate when it is longer than this
MethodThreshold(m) ==
    CASE m = "text-divs" -> 100
      [] m = "all-text"  -> 200
      [] OTHER           -> 50

\* content_selectors of extract_main_content, then its fallback
content_selectors == <<"div.elementor-widget-theme-post-content",
                       "div.elementor-post__content", "article.elementor-post",
                       "div.entry-content", "main", "div.content">>

Fallback == "extract_content_fallback"

SelectorThreshold == 100

SeqRange(q) == { q[k] : k \in 1..Len(q) }

\* Text lengths around the thresholds 50, 100 and 200, and the length of ten
\* paragraphs of 60 characters joined by single spaces.
Lengths == {0, 50, 100, 120, 201, 609}

Extractors == {"_extract_content_fallback", "extract_main_content"}

Strategies(e) ==
    IF e = "_extract_content_fallback" THEN SeqRange(FallbackMethods)
    ELSE SeqRange(content_selectors) \cup {Fallback}

NoContent == [method |-> "none", len |-> 0]

Candidate(m, found) == [method |-> m, len |-> found[m]]

\* content_candidates after the seven methods have run
content_candidates(found) ==
    { Candidate(m, found) : m \in { x \in SeqRange(FallbackMethods) : found[x] > MethodThreshold(x) } }

SortKeyGreater_HighNumberFirst(a, b) ==
    \/ a.len > b.len
    \/ a.len = b.len /\ method_priority(a.method) > method_priority(b.method)

\* the sort key (len(x[1]), -method_priority.get(x[0], 0)) compared as tuples
SortKeyGreater(a, b) ==
    \/ a.len > b.len
    \/ a.len = b.len /\ - method_priority(a.method) > - method_priority(b.method)

\* content_candidates.sort(key=..., reverse=True); content_candidates[0]
BestCandidate(cands) ==
    CHOOSE c \in cands : \A d \in cands \ {c} : SortKeyGreater(c, d)

\* _extract_content_fallback (pages.py:533-616)
extract_content_fallback_pages(found) ==
    IF content_candidates(found) # {} THEN BestCandidate(content_candidates(found))
    ELSE NoContent

RECURSIVE FirstSelector(_, _)
\* the loop over content_selectors with its break (scraping.py:269-275)
FirstSelector(k, found) ==
    IF k > Len(content_selectors) THEN NoContent
    ELSE IF found[content_selectors[k]] > SelectorThreshold
         THEN Candidate(content_selectors[k], found)
         ELSE FirstSelector(k + 1, found)

\* extract_main_content (scraping.py:245-294): the text it returns is the
\* chosen candidate's, with the configured phrases removed and cleaned
extract_main_content(found) ==
    LET first == FirstSelector(1, found)
    IN  IF first # NoContent THEN first
        ELSE IF found[Fallback] > 0 THEN Candidate(Fallback, found)
        ELSE NoContent

\* Pages: what find/select_one and get_text can yield for one document.
\* The joined text-divs are each longer than 100 characters, the whole
\* page's text is at least as long as the text of any element in it, and the
\* parts joined by extract_content_fallback are each longer than 50.
PagesOf(e) ==
    IF e = "_extract_content_fallback"
    THEN { f \in [Strategies(e) -> Lengths] :
             /\ f["text-divs"] \notin {50, 100}
             /\ \A m \in {"article", "main-content", "entry-content", "post-content"} :
                   f[m] <= f["all-text"] }
    ELSE { f \in [Strategies(e) -> Lengths] : f[Fallback] # 50 }

ExtractInit ==
    /\ ex_pc = "call"
    /\ extractor \in Extractors
    /\ ex_found \in PagesOf(extractor)
    /\ ex_result = NoContent

ExtractContentFallback ==
    /\ ex_pc = "call"
    /\ extractor = "_extract_content_fallback"
    /\ ex_result' = extract_content_fallback_pages(ex_found)
    /\ ex_pc' = "returned"
    /\ UNCHANGED <<extractor, ex_found>>
    /\ UNCHANGED notExtractVars

ExtractMainContent ==
    /\ ex_pc = "call"
    /\ extractor = "extract_main_content"
    /\ ex_result' = extract_main_content(ex_found)
    /\ ex_pc' = "returned"
    /\ UNCHANGED <<extractor, ex_found>>
    /\ UNCHANGED notExtractVars

ExtractIdle ==
    /\ ex_pc = "idle"
    /\ extractor = None
    /\ ex_found = <<>>
    /\ ex_result = NoContent

(***************************************************************************)
(* is_valid_content called on its own (scraping.py:130-154).  A body is    *)
(* described by its stripped length and by the phrases that occur in       *)
(* content.lower().                                                        *)
(***************************************************************************)
\* Phrases of error pages: the error_indicators of is_valid_content and
\* 'page not found' (an indicator of validation.py:71 only).
ErrorPagePhrases == error_indicators \cup {"page not found"}

\* Stripped lengths around the threshold; only a long body has room for
\* several phrases, an empty one for none.
ValidatorBodies ==
    { Body(0, {}) }
    \cup { Body(l, P) : l \in {49, 50}, P \in { Q \in SUBSET ErrorPagePhrases : Cardinality(Q) <= 1 } }
    \cup { Body(300, P) : P \in SUBSET ErrorPagePhrases }

ValidInit ==
    /\ vc_pc = "call"
    /\ vc_body \in ValidatorBodies
    /\ vc_valid = FALSE

IsValidContent ==
    /\ vc_pc = "call"
    /\ vc_valid' = is_valid_content(vc_body)
    /\ vc_pc' = "returned"
    /\ UNCHANGED vc_body
    /\ UNCHANGED notValidVars

ValidIdle ==
    /\ vc_pc = "idle"
    /\ vc_body = Body(0, {})
    /\ vc_valid = FALSE

(***************************************************************************)
(* PDF chunking: the merge pass and the emit loop of                       *)
(* PDFProcessor._create_rag_ready_chunks (pdfs.py:219-284) and the emit    *)
(* loop of create_pdf_chunks (pdf_processing.py:256-327).                  *)
(* A chunk of a page is described by the length of its text, its image     *)
(* references, its page and its position on the page; a text built by the  *)
(* merge pass is the sequence of the chunks it joins with single spaces.   *)
(***************************************************************************)
MergeBufferLimit == 500

MergeSizeLimit == 1500

PdfMinLength == 50

\* (length of the text, image references) of the chunks a page can hold
FragmentShapes ==
    { <<20, <<>>>>, <<20, <<"i1">>>>, <<499, <<"i1">>>>, <<500, <<>>>>,
      <<999, <<"i1", "i2">>>>, <<1000, <<>>>> }

Fragment(shape, p, k) == [len |-> shape[1], images |-> shape[2], page |-> p, k |-> k]

RECURSIVE TextLen(_)
\* len() of a text joined from fragments with single spaces
TextLen(t) ==
    IF t = <<>> THEN 0
    ELSE IF Len(t) = 1 THEN t[1].len
    ELSE TextLen(SubSeq(t, 1, Len(t) - 1)) + 1 + t[Len(t)].len

CanMerge_AnyBuffer(cur, frag) == TextLen(cur) + 1 + frag.len < MergeSizeLimit

\* len(current_merged) < 500 and len(current_merged + " " + chunk_text) < 1500
CanMerge(cur, frag) ==
    /\ TextLen(cur) < MergeBufferLimit
    /\ TextLen(cur) + 1 + frag.len < MergeSizeLimit

\* list(set(images)): the distinct references, in any order
OrderingsOf(images) ==
    LET S == SeqRange(images)
    IN  { q \in [1..Cardinality(S) -> S] : SeqRange(q) = S }

\* config['rag']['min_chunk_size'] of the runs and of test_pdf_pipeline
PdfMinChunkSizes == {10, 50}

NextChunkId_Stuck(cid) == cid

\* chunk_id += 1
NextChunkId(cid) == cid + 1

KeepPdfChunk_Configured(t) == TextLen(t) >= pdf_min_chunk_size

\* the two `continue` guards of the emit loop (pdfs.py:257-262) negated
KeepPdfChunk(t) == t # <<>> /\ TextLen(t) >= PdfMinLength

ChunkItem(t, images, p, cid) ==
    [content |-> t, pictures |-> images, page_number |-> p, chunk_number |-> cid]

RECURSIVE EmitMerged(_, _, _, _, _)
\* for chunk_data in merged_chunks: ... (pdfs.py:251-282); yields the new
\* values of chunks, chunk_id and the number of chunks passed over
EmitMerged(mc, p, out, cid, skipped) ==
    IF mc = <<>> THEN <<out, cid, skipped>>
    ELSE IF KeepPdfChunk(Head(mc).text)
         THEN EmitMerged(Tail(mc), p,
                         Append(out, ChunkItem(Head(mc).text, Head(mc).images, p, cid)),
                         NextChunkId(cid), skipped)
         ELSE EmitMerged(Tail(mc), p, out, cid, skipped + 1)

PdfInit ==
    /\ pdf_pc = "next_page"
    /\ pdf_impl \in {"pdfs", "pdf_processing"}
    /\ pdf_min_chunk_size \in PdfMinChunkSizes
    /\ page_num = 0
    /\ pdf_k = 0
    /\ fragments_read = 0
    /\ current_merged = <<>>
    /\ current_merged_images = <<>>
    /\ merged_chunks = <<>>
    /\ chunk_id = 1
    /\ pdf_skipped = 0
    /\ pdf_out = <<>>

\* for page_num in sorted(pages.keys()): the next page that holds text
PdfNextPage ==
    /\ pdf_pc = "next_page"
    /\ fragments_read < MaxPdfFragments
    /\ \E p \in (page_num + 1)..MaxPdfPage : page_num' = p
    /\ pdf_pc' = IF pdf_impl = "pdfs" THEN "merge" ELSE "chunks"
    /\ pdf_k' = 0
    /\ current_merged' = <<>>
    /\ current_merged_images' = <<>>
    /\ merged_chunks' = <<>>
    /\ UNCHANGED <<pdf_impl, pdf_min_chunk_size, fragments_read, chunk_id, pdf_skipped, pdf_out>>
    /\ UNCHANGED notPdfVars

\* the page loop is exhausted: return chunks
PdfReturn ==
    /\ pdf_pc = "next_page"
    /\ pdf_pc' = "done"
    /\ UNCHANGED <<pdf_impl, pdf_min_chunk_size, page_num, pdf_k, fragments_read,
                   current_merged, current_merged_images, merged_chunks, chunk_id,
                   pdf_skipped, pdf_out>>
    /\ UNCHANGED notPdfVars

\* one iteration of `for chunk in final_chunks` (pdfs.py:224-242)
MergeFragment ==
    /\ pdf_pc = "merge"
    /\ fragments_read < MaxPdfFragments
    /\ \E shape \in FragmentShapes :
          LET chunk == Fragment(shape, page_num, pdf_k + 1)
          IN  IF CanMerge(current_merged, chunk)
              THEN /\ current_merged' = Append(current_merged, chunk)
                   /\ current_merged_images' = current_merged_images \o chunk.images
                   /\ UNCHANGED merged_chunks
              ELSE /\ IF current_merged # <<>>
                        THEN \E images \in OrderingsOf(current_merged_images) :
                               merged_chunks' = Append(merged_chunks,
                                   [text |-> current_merged, images |-> images])
                        ELSE UNCHANGED merged_chunks
                   /\ current_merged' = <<chunk>>
                   /\ current_merged_images' = chunk.images
    /\ pdf_k' = pdf_k + 1
    /\ fragments_read' = fragments_read + 1
    /\ UNCHANGED <<pdf_pc, pdf_impl, pdf_min_chunk_size, page_num, chunk_id, pdf_skipped, pdf_out>>
    /\ UNCHANGED notPdfVars

\* the end of the page: the last buffer is saved (pdfs.py:244-249) and the
\* page's merged chunks are emitted (pdfs.py:251-282)
EmitPage ==
    /\ pdf_pc = "merge"
    /\ pdf_k >= 1
    /\ \E images \in OrderingsOf(current_merged_images) :
          LET all == IF current_merged # <<>>
                     THEN Append(merged_chunks, [text |-> current_merged, images |-> images])
                     ELSE merged_chunks
              res == EmitMerged(all, page_num, pdf_out, chunk_id, pdf_skipped)
          IN  /\ merged_chunks' = all
              /\ pdf_out' = res[1]
              /\ chunk_id' = res[2]
              /\ pdf_skipped' = res[3]
    /\ pdf_pc' = "next_page"
    /\ UNCHANGED <<pdf_impl, pdf_min_chunk_size, page_num, pdf_k, fragments_read,
                   current_merged, current_merged_images>>
    /\ UNCHANGED notPdfVars

\* create_pdf_chunks, one iteration of `for chunk in chunked_elements`
\* (pdf_processing.py:302-325)
CreatePdfChunk ==
    /\ pdf_pc = "chunks"
    /\ fragments_read < MaxPdfFragments
    /\ \E shape \in FragmentShapes :
          LET chunk == Fragment(shape, page_num, pdf_k + 1)
          IN  IF KeepPdfChunk_Configured(<<chunk>>)
              THEN /\ pdf_out' = Append(pdf_out,
                                        ChunkItem(<<chunk>>, <<>>, page_num, chunk_id))
                   /\ chunk_id' = NextChunkId(chunk_id)
                   /\ UNCHANGED pdf_skipped
              ELSE /\ pdf_skipped' = pdf_skipped + 1
                   /\ UNCHANGED <<pdf_out, chunk_id>>
    /\ pdf_k' = pdf_k + 1
    /\ fragments_read' = fragments_read + 1
    /\ UNCHANGED <<pdf_pc, pdf_impl, pdf_min_chunk_size, page_num,
                   current_merged, current_merged_images, merged_chunks>>
    /\ UNCHANGED notPdfVars

\* create_pdf_chunks: the page's chunked_elements are exhausted
PdfPageDone ==
    /\ pdf_pc = "chunks"
    /\ pdf_k >= 1
    /\ pdf_pc' = "next_page"
    /\ UNCHANGED <<pdf_impl, pdf_min_chunk_size, page_num, pdf_k, fragments_read,
                   current_merged, current_merged_images, merged_chunks, chunk_id,
                   pdf_skipped, pdf_out>>
    /\ UNCHANGED notPdfVars

PdfIdle ==
    /\ pdf_pc = "idle"
    /\ pdf_impl = None
    /\ pdf_min_chunk_size = 0
    /\ page_num = 0
    /\ pdf_k = 0
    /\ fragments_read = 0
    /\ current_merged = <<>>
    /\ current_merged_images = <<>>
    /\ merged_chunks = <<>>
    /\ chunk_id = 0
    /\ pdf_skipped = 0
    /\ pdf_out = <<>>

(***************************************************************************)
(* PDF chunking: the split of a chunk longer than 2000 characters          *)
(* (pdfs.py:167-217).  A text is the sequence of the lengths of its words, *)
(* which single spaces separate; the chunk's text is read one sentence at  *)
(* a time, each sentence ended by one terminator.                          *)
(***************************************************************************)
OversizeLimit == 2000

GroupLimit == 1500

\* Word lengths around the group limit; none exceeds it.
WordLengths == {1, 750, 1499}

RECURSIVE WordsLen(_)
\* len() of a text of words joined by single spaces
WordsLen(t) ==
    IF t = <<>> THEN 0
    ELSE IF Len(t) = 1 THEN t[1]
    ELSE WordsLen(SubSeq(t, 1, Len(t) - 1)) + 1 + t[Len(t)]

\* The non-empty stripped sentences re.split(r'[.!?]+', chunk_text) can yield.
Sentences == UNION { [1..n -> WordLengths] : n \in 1..MaxWordsPerSentence }

\* len(current_sentence_group + sentence) > 1500
GroupOverflows(group, sentence) == WordsLen(group) + WordsLen(sentence) > GroupLimit

\* len(current_word_group + " " + word) > 1500
WordOverflows(word_group, word) == WordsLen(word_group) + 1 + word > GroupLimit

RECURSIVE SplitWords(_, _, _)
\* for word in words: ... and the final append (pdfs.py:187-204)
SplitWords(words, current_word_group, out) ==
    IF words = <<>>
    THEN IF current_word_group # <<>> THEN Append(out, current_word_group) ELSE out
    ELSE IF WordOverflows(current_word_group, Head(words))
         THEN SplitWords(Tail(words), <<Head(words)>>,
                         IF current_word_group # <<>> THEN Append(out, current_word_group)
                         ELSE out)
         ELSE SplitWords(Tail(words), Append(current_word_group, Head(words)), out)

SplitChunkInit ==
    /\ sp_pc = "sentences"
    /\ sp_n = 0
    /\ sp_len = 0
    /\ current_sentence_group = <<>>
    /\ final_chunks = <<>>

\* one iteration of `for sentence in sentences` (pdfs.py:173-206)
SplitSentence ==
    /\ sp_pc = "sentences"
    /\ sp_n < MaxSentences
    /\ \E sentence \in Sentences :
          /\ sp_len' = sp_len + (IF sp_n > 0 THEN 1 ELSE 0) + WordsLen(sentence) + 1
          /\ IF GroupOverflows(current_sentence_group, sentence)
             THEN IF current_sentence_group # <<>>
                  THEN /\ final_chunks' = Append(final_chunks, current_sentence_group)
                       /\ current_sentence_group' = sentence
                  ELSE /\ final_chunks' = SplitWords(sentence, <<>>, final_chunks)
                       /\ UNCHANGED current_sentence_group
             ELSE /\ current_sentence_group' = current_sentence_group \o sentence
                  /\ UNCHANGED final_chunks
    /\ sp_n' = sp_n + 1
    /\ UNCHANGED sp_pc
    /\ UNCHANGED notSplitVars

\* the sentences of a chunk longer than 2000 characters are exhausted: the
\* last group is appended (pdfs.py:208-212)
SplitFinish ==
    /\ sp_pc = "sentences"
    /\ sp_len > OversizeLimit
    /\ final_chunks' = IF current_sentence_group # <<>>
                        THEN Append(final_chunks, current_sentence_group)
                        ELSE final_chunks
    /\ sp_pc' = "done"
    /\ UNCHANGED <<sp_n, sp_len, current_sentence_group>>
    /\ UNCHANGED notSplitVars

SplitIdle ==
    /\ sp_pc = "idle"
    /\ sp_n = 0
    /\ sp_len = 0
    /\ current_sentence_group = <<>>
    /\ final_chunks = <<>>

(***************************************************************************)
(* format_date (utils.py:43-77).  A date string is a sequence of tokens:   *)
(* groups of digits and the single characters '-', ':', 'T', 'Z', '+', ' '.*)
(***************************************************************************)
\* a value of any of the types format_date tells apart
DateValue(kind, s, day, time, tzinfo) ==
    [kind |-> kind, s |-> s, day |-> day, time |-> time, tzinfo |-> tzinfo]

NoneDate == DateValue("None", <<>>, <<>>, <<>>, <<>>)

\* a str
StrDate(s) == DateValue("str", s, <<>>, <<>>, <<>>)

\* a datetime.datetime; tzinfo <<>> stands for tzinfo None
DateTime(day, time, tzinfo) == DateValue("datetime", <<>>, day, time, tzinfo)

\* a datetime.date, one of the types that are neither datetime nor str
DateObject(day) == DateValue("date", <<>>, day, <<>>, <<>>)

Days == { <<"2023", "-", "07", "-", "17">>, <<"2023", "-", "01", "-", "01">> }

Times == { <<"00", ":", "00", ":", "00">>, <<"10", ":", "30", ":", "00">> }

\* timezone.utc as isoformat() prints it
UtcOffset == <<"+", "00", ":", "00">>

Offsets == { UtcOffset, <<"+", "02", ":", "00">>, <<"-", "05", ":", "00">> }

\* datetime.isoformat() of an aware datetime
isoformat(dt) == dt.day \o <<"T">> \o dt.time \o dt.tzinfo

\* s.count(c)
Count(s, c) == Cardinality({ k \in 1..Len(s) : s[k] = c })

\* `c in s` for a single character c
Contains(s, c) == \E k \in 1..Len(s) : s[k] = c

\* s.endswith(c) for a single character c
EndsWith(s, c) == s # <<>> /\ s[Len(s)] = c

\* the test "string already has timezone info" (utils.py:68, validation.py:54)
HasTimezoneInfo(s) ==
    EndsWith(s, "Z") \/ Contains(s, "+") \/ (Count(s, "-") > 2 /\ Contains(s, "T"))

MidnightUtc == <<"T", "00", ":", "00", ":", "00", "Z">>

format_date(v) ==
    IF v.kind = "None" \/ (v.kind = "str" /\ v.s = <<>>) THEN NoneDate
    ELSE IF v.kind = "datetime"
         THEN IF v.tzinfo = <<>>
              THEN StrDate(isoformat(DateTime(v.day, v.time, UtcOffset)))
              ELSE StrDate(isoformat(v))
    ELSE IF v.kind = "str"
         THEN LET stripped == Strip(v.s)
              IN  IF stripped = <<>> THEN NoneDate
                  ELSE IF HasTimezoneInfo(stripped) THEN StrDate(stripped)
                  ELSE IF Contains(stripped, "T") THEN StrDate(stripped \o <<"Z">>)
                  ELSE StrDate(stripped \o MidnightUtc)
    ELSE StrDate(v.day)

\* ISO-8601 texts of the days and times, without and with a timezone
IsoTexts ==
    Days
    \cup { d \o <<"T">> \o t : d \in Days, t \in Times }
    \cup { d \o <<"T">> \o t \o z : d \in Days, t \in Times, z \in Offsets \cup {<<"Z">>} }

Paddings == { <<>>, <<" ">> }

\* The date values handed to format_date.
DateValues ==
    { NoneDate, StrDate(<<>>), StrDate(<<" ">>), StrDate(<<" ", " ">>) }
    \cup { StrDate(l \o s \o r) : s \in IsoTexts, l \in Paddings, r \in Paddings }
    \cup { DateTime(d, t, z) : d \in Days, t \in Times, z \in Offsets \cup {<<>>} }
    \cup { DateObject(d) : d \in Days }

DateInit ==
    /\ fd_pc = "call"
    /\ date_value \in DateValues
    /\ fd_result = NoneDate

FormatDate ==
    /\ fd_pc = "call"
    /\ fd_result' = format_date(date_value)
    /\ fd_pc' = "returned"
    /\ UNCHANGED date_value
    /\ UNCHANGED notDateVars

DateIdle ==
    /\ fd_pc = "idle"
    /\ date_value = NoneDate
    /\ fd_result = NoneDate

(***************************************************************************)
(* validate_and_fix_documents (vector_db/upload.py:26-81 and               *)
(* vector_db/validation.py:84-159) with validate_document_for_vector_db    *)
(* (validation.py:18-81).  A text field is either absent from the          *)
(* document, None, or a string; a content string is described by its       *)
(* length, its stripped length and the error phrases in content.lower().   *)
(***************************************************************************)
Field(kind, s) == [kind |-> kind, s |-> s]

Absent == Field("absent", <<>>)

Content(kind, raw_len, stripped_len, phrases) ==
    [kind |-> kind, raw_len |-> raw_len, stripped_len |-> stripped_len, phrases |-> phrases]

AbsentDate == DateValue("absent", <<>>, <<>>, <<>>, <<>>)

\* `not doc.get('id')`, `not doc.get('title')`
FieldFalsy(v) == v.kind # "str" \/ v.s = <<>>

ContentFalsy_AbsentOnly(c) == c.kind # "str"

\* `not doc.get('content')`
ContentFalsy(c) == c.kind # "str" \/ c.raw_len = 0

\* `not date_val`, `doc['date']` being false
DateFalsy(d) == d.kind \in {"absent", "None"} \/ (d.kind = "str" /\ d.s = <<>>)

\* validation.py:70-75
validation_error_indicators ==
    { "error 404", "404 not found", "page not found", "access denied", "forbidden",
      "unauthorized", "server error", "internal server error",
      "temporarily unavailable", "maintenance mode" }

MinValidationLength == 10

DocIds ==
    { Absent, Field("str", <<>>), Field("str", <<"a", " ", "b", "!">>),
      Field("str", <<"!">>) }

DocContents ==
    { Content("absent", 0, 0, {}), Content("str", 0, 0, {}), Content("str", 3, 0, {}),
      Content("str", 40, 40, {"page not found"}) }

DocTitles == { Absent, Field("str", <<"t">>) }

DocDates ==
    { AbsentDate, StrDate(<<"2023", "-", "07", "-", "17">>),
      DateTime(<<"2023", "-", "07", "-", "17">>, <<"10", ":", "30", ":", "00">>, <<>>) }

Docs == [id : DocIds, content : DocContents, title : DocTitles, date : DocDates]

\* normalize_document_id(doc['id']) as a field; None normalizes to 'unknown'
NormalizedId(v) == Field("str", normalize_document_id(v.s))

\* upload.py:64-71
UploadFixDate(d) == IF DateFalsy(d) THEN d ELSE format_date(d)

\* validation.py:118-135
ValidationFixDate(d) ==
    IF DateFalsy(d) THEN d
    ELSE IF d.kind # "str" THEN format_date(d)
    ELSE IF ~ HasTimezoneInfo(d.s) THEN format_date(d)
    ELSE d

\* the document after the fixes of validation.py:109-135
ValidationFixed(d, fix) ==
    IF ~ fix THEN d
    ELSE [d EXCEPT !.id = IF d.id.kind = "absent" THEN d.id ELSE NormalizedId(d.id),
                   !.date = ValidationFixDate(d.date)]

\* re.match(r'^[a-zA-Z0-9_\-=]+$', doc_id)
IdMatches(s) == s # <<>> /\ \A k \in 1..Len(s) : s[k] \in AllowedIdChars

\* validate_document_for_vector_db: the errors it reports, by kind
ValidationErrors(d) ==
    (IF FieldFalsy(d.id) THEN {"missing id"}
     ELSE IF ~ IdMatches(d.id.s) THEN {"invalid id"} ELSE {})
    \cup (IF FieldFalsy(d.title) THEN {"missing title"} ELSE {})
    \cup (IF ContentFalsy(d.content) THEN {"missing content"} ELSE {})
    \cup (IF DateFalsy(d.date) THEN {}
          ELSE IF d.date.kind = "str"
               THEN IF HasTimezoneInfo(d.date.s) THEN {} ELSE {"invalid date"}
          ELSE {"date not a string"})
    \cup (IF ContentFalsy(d.content) THEN {}
          ELSE (IF d.content.stripped_len < MinValidationLength THEN {"content too short"} ELSE {})
               \cup (IF d.content.phrases \cap validation_error_indicators # {}
                     THEN {"error message"} ELSE {}))

\* the errors whose message contains 'missing', 'required' or 'empty'
CriticalErrors(errors) == errors \cap {"missing id", "missing title", "missing content"}

InitDocStats ==
    [fixed_ids |-> 0, fixed_dates |-> 0, invalid_removed |-> 0, warnings |-> 0,
     output_count |-> 0]

DocInit ==
    /\ doc_pc = "next"
    /\ doc_impl \in {"upload", "validation"}
    /\ auto_fix \in (IF doc_impl = "upload" THEN {TRUE} ELSE BOOLEAN)
    /\ n_docs \in 0..MaxDocs
    /\ docs_read = 0
    /\ doc \in Docs
    /\ doc = [id |-> Absent, content |-> Content("absent", 0, 0, {}),
              title |-> Absent, date |-> AbsentDate]
    /\ fixed_docs = <<>>
    /\ doc_stats = InitDocStats

\* `for doc in docs`: the next document of the list
NextDoc ==
    /\ doc_pc = "next"
    /\ docs_read < n_docs
    /\ doc' \in Docs
    /\ docs_read' = docs_read + 1
    /\ doc_pc' = "read"
    /\ UNCHANGED <<doc_impl, auto_fix, n_docs, fixed_docs, doc_stats>>
    /\ UNCHANGED notDocVars

\* the loop body of upload.py:49-73
UploadValidateDoc ==
    /\ doc_pc = "read"
    /\ doc_impl = "upload"
    /\ IF FieldFalsy(doc.id) \/ ContentFalsy(doc.content)
         THEN /\ doc_stats' = [doc_stats EXCEPT !.invalid_removed = @ + 1]
              /\ UNCHANGED fixed_docs
         ELSE LET fixed == [doc EXCEPT !.id = NormalizedId(doc.id),
                                       !.date = UploadFixDate(doc.date)]
              IN  /\ fixed_docs' = Append(fixed_docs, fixed)
                  /\ doc_stats' = [doc_stats EXCEPT
                         !.fixed_ids = IF fixed.id # doc.id THEN @ + 1 ELSE @,
                         !.fixed_dates = IF fixed.date # doc.date THEN @ + 1 ELSE @]
    /\ doc_pc' = "next"
    /\ UNCHANGED <<doc_impl, auto_fix, n_docs, docs_read, doc>>
    /\ UNCHANGED notDocVars

\* the loop body of validation.py:106-155
ValidationValidateDoc ==
    /\ doc_pc = "read"
    /\ doc_impl = "validation"
    /\ LET doc_copy == ValidationFixed(doc, auto_fix)
           errors == ValidationErrors(doc_copy)
           removed == CriticalErrors(errors) # {} /\ auto_fix
       IN  /\ fixed_docs' = IF removed THEN fixed_docs ELSE Append(fixed_docs, doc_copy)
           /\ doc_stats' = [doc_stats EXCEPT
                  !.fixed_ids = IF doc_copy.id # doc.id THEN @ + 1 ELSE @,
                  !.fixed_dates = IF doc_copy.date # doc.date THEN @ + 1 ELSE @,
                  !.warnings = IF errors # {} THEN @ + 1 ELSE @,
                  !.invalid_removed = IF removed THEN @ + 1 ELSE @]
    /\ doc_pc' = "next"
    /\ UNCHANGED <<doc_impl, auto_fix, n_docs, docs_read, doc>>
    /\ UNCHANGED notDocVars

\* stats['output_count'] = len(fixed_docs); return fixed_docs, stats
ReturnDocs ==
    /\ doc_pc = "next"
    /\ docs_read = n_docs
    /\ doc_stats' = [doc_stats EXCEPT !.output_count = Len(fixed_docs)]
    /\ doc_pc' = "done"
    /\ UNCHANGED <<doc_impl, auto_fix, n_docs, docs_read, doc, fixed_docs>>
    /\ UNCHANGED notDocVars

DocIdle ==
    /\ doc_pc = "idle"
    /\ doc_impl = None
    /\ auto_fix = FALSE
    /\ n_docs = 0
    /\ docs_read = 0
    /\ doc = [id |-> Absent, content |-> Content("absent", 0, 0, {}),
              title |-> Absent, date |-> AbsentDate]
    /\ fixed_docs = <<>>
    /\ doc_stats = InitDocStats

ChunkIdle ==
    /\ ck_pc = "idle"
    /\ ck_caller = None
    /\ item_content = <<>>
    /\ text = <<>>
    /\ max_chunk_size = 0
    /\ min_chunk_size = 0
    /\ overlap = 0
    /\ current_pos = 0
    /\ prev_pos = 0
    /\ break_pos = 0
    /\ iterations = 0
    /\ chunks = <<>>
    /\ item_chunks = <<>>

IdIdle ==
    /\ id_pc = "idle"
    /\ id_input = <<>>
    /\ id_once = <<>>
    /\ id_twice = <<>>

(***************************************************************************)
(* Specifications.                                                         *)
(***************************************************************************)
Init == ScrapeInit /\ ChunkIdle /\ IdIdle /\ ChunkIdIdle /\ RunIdle /\ ExtractIdle /\ ValidIdle /\ PdfIdle /\ SplitIdle /\ DateIdle /\ DocIdle

Next ==
    \/ StartSession
    \/ SwrAttempt
    \/ MainPageParsed
    \/ SidCallFetch
    \/ SidAfterFetch
    \/ RecordItem
    \/ FinishSession

Spec == Init /\ [][Next]_vars

ChunkSpecInit == ScrapeIdle /\ ChunkInit /\ IdIdle /\ ChunkIdIdle /\ RunIdle /\ ExtractIdle /\ ValidIdle /\ PdfIdle /\ SplitIdle /\ DateIdle /\ DocIdle

ChunkNext ==
    \/ SplitStart
    \/ SplitIterate
    \/ CreateChunksBegin
    \/ CreateChunksFinish

ChunkSpec == ChunkSpecInit /\ [][ChunkNext]_vars

IdSpecInit == ScrapeIdle /\ ChunkIdle /\ IdInit /\ ChunkIdIdle /\ RunIdle /\ ExtractIdle /\ ValidIdle /\ PdfIdle /\ SplitIdle /\ DateIdle /\ DocIdle

IdNext ==
    \/ NormalizeTitle
    \/ NormalizeStoredId

IdSpec == IdSpecInit /\ [][IdNext]_vars

ChunkIdSpecInit == ScrapeIdle /\ ChunkIdle /\ IdIdle /\ ChunkIdInit /\ RunIdle /\ ExtractIdle /\ ValidIdle /\ PdfIdle /\ SplitIdle /\ DateIdle /\ DocIdle

ChunkIdNext == CreateChunkId

ChunkIdSpec == ChunkIdSpecInit /\ [][ChunkIdNext]_vars

RunSpecInit == ScrapeIdle /\ ChunkIdle /\ IdIdle /\ ChunkIdIdle /\ RunInit /\ ExtractIdle /\ ValidIdle /\ PdfIdle /\ SplitIdle /\ DateIdle /\ DocIdle

RunNext ==
    \/ CreateRagChunksItem
    \/ PageChunksDone
    \/ ProcessPdfsOfItem
    \/ ProcessPdf
    \/ CombineChunks

RunSpec == RunSpecInit /\ [][RunNext]_vars

ExtractSpecInit ==
    ScrapeIdle /\ ChunkIdle /\ IdIdle /\ ChunkIdIdle /\ RunIdle /\ ExtractInit /\ ValidIdle /\ PdfIdle /\ SplitIdle /\ DateIdle /\ DocIdle

ExtractNext ==
    \/ ExtractContentFallback
    \/ ExtractMainContent

ExtractSpec == ExtractSpecInit /\ [][ExtractNext]_vars

ValidSpecInit ==
    ScrapeIdle /\ ChunkIdle /\ IdIdle /\ ChunkIdIdle /\ RunIdle /\ ExtractIdle /\ ValidInit /\ PdfIdle /\ SplitIdle /\ DateIdle /\ DocIdle

ValidNext == IsValidContent

ValidSpec == ValidSpecInit /\ [][ValidNext]_vars

PdfSpecInit ==
    ScrapeIdle /\ ChunkIdle /\ IdIdle /\ ChunkIdIdle /\ RunIdle /\ ExtractIdle /\ ValidIdle /\ PdfInit /\ SplitIdle /\ DateIdle /\ DocIdle

PdfNext ==
    \/ PdfNextPage
    \/ PdfReturn
    \/ MergeFragment
    \/ EmitPage
    \/ CreatePdfChunk
    \/ PdfPageDone

PdfSpec == PdfSpecInit /\ [][PdfNext]_vars

PdfSplitSpecInit ==
    ScrapeIdle /\ ChunkIdle /\ IdIdle /\ ChunkIdIdle /\ RunIdle /\ ExtractIdle /\ ValidIdle /\ PdfIdle /\ SplitChunkInit /\ DateIdle /\ DocIdle

PdfSplitNext ==
    \/ SplitSentence
    \/ SplitFinish

PdfSplitSpec == PdfSplitSpecInit /\ [][PdfSplitNext]_vars

DateSpecInit ==
    ScrapeIdle /\ ChunkIdle /\ IdIdle /\ ChunkIdIdle /\ RunIdle /\ ExtractIdle /\ ValidIdle /\ PdfIdle /\ SplitIdle /\ DateInit /\ DocIdle

DateNext == FormatDate

DateSpec == DateSpecInit /\ [][DateNext]_vars

DocSpecInit ==
    ScrapeIdle /\ ChunkIdle /\ IdIdle /\ ChunkIdIdle /\ RunIdle /\ ExtractIdle /\ ValidIdle /\ PdfIdle /\ SplitIdle /\ DateIdle /\ DocInit

DocNext ==
    \/ NextDoc
    \/ UploadValidateDoc
    \/ ValidationValidateDoc
    \/ ReturnDocs

DocSpec == DocSpecInit /\ [][DocNext]_vars

PdfBatchSpecInit ==
    ScrapeIdle /\ ChunkIdle /\ IdIdle /\ ChunkIdIdle /\ PdfBatchInit /\ ExtractIdle /\ ValidIdle /\ PdfIdle /\ SplitIdle /\ DateIdle /\ DocIdle

PdfBatchNext ==
    \/ ProcessPdfsOfItem
    \/ ProcessPdf
    \/ ReturnRagReady

PdfBatchSpec == PdfBatchSpecInit /\ [][PdfBatchNext]_vars

\* run_full_pipeline(config, max_items, filter_type, include_pdfs=False) with
\* max_retries = 0: the session of scrape_detailed_items, then the chunking.
PipelineSpecInit ==
    /\ ScrapeInit /\ max_retries = 0 /\ retry_delays = <<3>>
    /\ ChunkIdle /\ IdIdle /\ ChunkIdIdle /\ RunIdle /\ ExtractIdle /\ ValidIdle /\ PdfIdle /\ SplitIdle /\ DateIdle /\ DocIdle

PipelineNext ==
    \/ StartSession
    \/ SwrAttempt
    \/ MainPageParsed
    \/ SidCallFetch
    \/ SidAfterFetch
    \/ RecordItem
    \/ FinishSession
    \/ BeginChunking
    \/ CreateRagChunksItem
    \/ PageChunksDone
    \/ CombineChunks

PipelineSpec == PipelineSpecInit /\ [][PipelineNext]_vars

BreakSpecInit == ScrapeIdle /\ BreakCallInit /\ IdIdle /\ ChunkIdIdle /\ RunIdle /\ ExtractIdle /\ ValidIdle /\ PdfIdle /\ SplitIdle /\ DateIdle /\ DocIdle

BreakNext ==
    \/ SplitStart
    \/ SplitIterate

BreakSpec == BreakSpecInit /\ [][BreakNext]_vars


(***************************************************************************)
(* Claims about the scraping session (checked under Spec).                 *)
(***************************************************************************)
SwrReturned == pc \in {"main_parse", "sid_after"}

\* C1: scrape_with_retry with max_retries = R issues its fetches one after
\* another, stops at the first successful non-empty result or after R + 1
\* attempts, and when every attempt fails it has made exactly R + 1 attempts and
\* returns None (3 attempts for R = 2).
C1_AttemptsUpToRetriesPlusOne ==
    /\ pc = "swr" =>
        /\ swr_result = Pending
        /\ swr_fetches = swr_attempt
        /\ swr_attempt <= max_retries
        /\ swr_last # "ok"
    /\ SwrReturned =>
        /\ swr_fetches >= 1
        /\ swr_fetches <= max_retries + 1
        /\ swr_result \in {None, "ok"}
        /\ swr_result = None => (swr_fetches = max_retries + 1 /\ swr_last # "ok")
        /\ swr_result = "ok" => (swr_fetches = swr_attempt + 1 /\ swr_last = "ok")
        /\ (max_retries = 2 /\ swr_result = None) => swr_fetches = 3

C1_Witness ==
    /\ SwrReturned
    /\ max_retries = 2
    /\ swr_result = None
    /\ swr_fetches = 3

\* C2 (as claimed): for one item scrape_item_details fetches the item's URL at
\* most max_retries + 1 times in total, whatever the mix of transport failures
\* and invalid bodies.
C2_AtMostRetriesPlusOneFetchesPerItem ==
    sid_fetches <= max_retries + 1

\* C3: scrape_item_details always returns a KnowledgeBaseItem (it never ends by
\* raising); the item keeps the input title, url and item_type, and when all
\* max_retries + 1 attempts failed its main_content is the sentinel
\* "Failed to scrape after N attempts" with N = max_retries + 1.
C3_ReturnsItemOrSentinel ==
    /\ sid_outcome # "raised"
    /\ pc = "record" =>
        /\ sid_outcome = "returned"
        /\ sid_item.title = main_items[i].title
        /\ sid_item.url = main_items[i].url
        /\ sid_item.item_type = main_items[i].item_type
        /\ sid_bad = max_retries + 1 =>
            /\ sid_item.main_content.kind = "Failed to scrape after N attempts"
            /\ sid_item.main_content.n = max_retries + 1
        /\ sid_bad < max_retries + 1 => sid_item.main_content.kind = "body"

C3_Witness ==
    /\ pc = "record"
    /\ max_retries = 2
    /\ sid_bad = 3
    /\ sid_item.main_content.n = 3
    /\ sid_fetches > 3

\* The delays the schedule prescribes after failed attempts 0 .. n-1.
ScheduledWaits(n) ==
    [j \in 1..n |-> IF j <= Len(retry_delays) THEN retry_delays[j]
                    ELSE retry_delays[Len(retry_delays)]]

\* C4: in each retry loop, after failed attempt i < max_retries the wait is
\* retry_delays[min(i, len - 1)] (last value reused), and there is no wait
\* after the final attempt or after a successful one; with max_retries = 2 and
\* schedule [1, 2, 5] and every attempt failing the waits are exactly 1 then 2.
C4_BackoffSchedule ==
    /\ pc = "swr" => swr_waits = ScheduledWaits(swr_fetches)
    /\ SwrReturned =>
        /\ swr_waits = ScheduledWaits(swr_fetches - 1)
        /\ Len(swr_waits) <= max_retries
        /\ (max_retries = 2 /\ retry_delays = <<1, 2, 5>> /\ swr_result = None)
              => swr_waits = <<1, 2>>
    /\ pc \in {"sid_try", "sid_after"} => sid_waits = ScheduledWaits(sid_bad)
    /\ pc = "record" =>
        sid_waits = ScheduledWaits(IF sid_item.main_content.kind = "body"
                                   THEN sid_bad ELSE max_retries)

C4_Witness ==
    /\ SwrReturned
    /\ max_retries = 2
    /\ retry_delays = <<1, 2, 5>>
    /\ swr_result = None
    /\ swr_waits = <<1, 2>>

\* C5: scrape_detailed_items returns exactly one detailed record per selected
\* item, in input order and with the item's title and url; a failed item is kept
\* with a sentinel content, so len(detailed_items) = total_items after any run.
C5_OneRecordPerItem ==
    /\ pc \in {"sid_try", "sid_after", "record"} => Len(detailed_items) = i - 1
    /\ pc \in {"finish", "done"} =>
        /\ Len(detailed_items) = Len(main_items)
        /\ Len(detailed_items) = stats.total_items
    /\ \A k \in 1..Len(detailed_items) :
        /\ k <= Len(main_items)
        /\ detailed_items[k].title = main_items[k].title
        /\ detailed_items[k].url = main_items[k].url
        /\ detailed_items[k].main_content.kind \in
              {"body", "Failed to scrape after N attempts", "Failed to scrape: e"}

C5_Witness ==
    /\ pc = "done"
    /\ Len(detailed_items) = 3
    /\ detailed_items[1].main_content.kind = "body"
    /\ detailed_items[2].main_content.kind = "Failed to scrape after N attempts"
    /\ detailed_items[3].main_content.kind = "body"


\* scrape_item_details is running for item i, or has just returned.
InItemScrape ==
    \/ pc \in {"sid_try", "sid_after", "record"}
    \/ pc = "swr" /\ swr_caller = "item"

\* C28: scrape_detailed_items sleeps the politeness delay exactly once between
\* two consecutive items: when item i is being scraped i - 1 delays have been
\* taken, each after the preceding item was recorded and before the first
\* fetch of the next; after n items there are n - 1, none after the last.
C28_OneDelayBetweenItems ==
    /\ InItemScrape =>
          /\ polite_sleeps = i - 1
          /\ Len(detailed_items) = i - 1
    /\ pc \in {"finish", "done"} =>
          polite_sleeps = IF Len(main_items) = 0 THEN 0 ELSE Len(main_items) - 1
    /\ pc \in {"start", "main_parse"} \/ (pc = "swr" /\ swr_caller = "main") =>
          polite_sleeps = 0

\* Three items, the second one failed: two delays.
C28_Witness ==
    /\ pc = "done"
    /\ Len(detailed_items) = 3
    /\ detailed_items[2].main_content.kind = "Failed to scrape after N attempts"
    /\ polite_sleeps = 2

\* C29: every processed item increments exactly one of successful_scrapes and
\* failed_scrapes, so after scrape_detailed_items has completed
\* successful_scrapes + failed_scrapes = total_items = len(detailed_items) and
\* server_errors <= failed_scrapes; success_rate is 0 when total_items = 0.
C29_OutcomeCountersAddUp ==
    /\ stats.successful_scrapes + stats.failed_scrapes = Len(detailed_items)
    /\ stats.server_errors <= stats.failed_scrapes
    /\ pc \in {"finish", "done"} =>
          /\ stats.successful_scrapes + stats.failed_scrapes = stats.total_items
          /\ stats.total_items = Len(detailed_items)
    /\ pc = "done" /\ stats.total_items = 0 => stats.success_rate = 0
    /\ pc = "done" /\ stats.total_items > 0 =>
          stats.success_rate = (stats.successful_scrapes * 100) \div stats.total_items

C29_Witness ==
    /\ pc = "done"
    /\ stats.total_items = 3
    /\ Len(detailed_items) = 3
    /\ stats.successful_scrapes + stats.failed_scrapes = 3

\* The run without items: the main page could not be fetched.
NoItemsRun ==
    /\ pc = "done"
    /\ swr_result = None
    /\ stats.total_items = 0
    /\ stats.success_rate = 0

\* The detailed items that came back with extracted, valid content.
ValidItems == { k \in 1..Len(detailed_items) : detailed_items[k].main_content.kind = "body" }

\* C30 (as claimed): successful_scrapes counts only items that came back with
\* valid content; an item carrying the sentinel 'Failed to scrape after N
\* attempts' is counted in failed_scrapes, and success_rate is below 100%
\* whenever some item failed.
C30_SentinelItemsCountAsFailed ==
    /\ stats.successful_scrapes = Cardinality(ValidItems)
    /\ stats.failed_scrapes = Len(detailed_items) - Cardinality(ValidItems)
    /\ (pc = "done" /\ Cardinality(ValidItems) < Len(detailed_items))
          => stats.success_rate < 100

\* ExtractionEmpty: the page was fetched and every strategy of
\* extract_main_content found nothing, so main_content is ''.
ExtractionEmpty == main_content = Body(0, {})

\* C23 (as claimed): when a page is fetched successfully but every extraction
\* strategy yields nothing, the item is not retried: no further fetch attempt
\* or backoff follows, and the item is returned with empty content.
C23_EmptyExtractionNotRetried ==
    ExtractionEmpty =>
        /\ pc \in {"record", "finish", "done"}
        /\ sid_item.main_content = Body(0, {})
        /\ sid_bad = 0 => sid_waits = <<>>

\* What C22 says of a limit n, for the runs whose max_items is an integer in S.
LimitRespected(S) ==
    max_items \in S =>
        /\ Len(main_items) <= max_items
        /\ Len(detailed_items) <= max_items
        /\ pc \in {"swr", "sid_try", "sid_after", "record"} /\ swr_caller # "main"
              => i <= max_items
        /\ filter_type # None =>
              \A k \in 1..Len(main_items) : main_items[k].item_type = filter_type
        /\ pc \in {"finish", "done"} => stats.total_items = Len(main_items)

\* C22 (as claimed): scrape_detailed_items called with max_items = n scrapes
\* and returns at most n detailed items, for every n >= 0; the limit follows
\* the item-type filter and total_items is the number of items left.
C22_AtMostMaxItems == LimitRespected(0..MaxPageItems)

\* The same for n >= 1, where `if max_items:` is true.
PositiveLimitRespected == LimitRespected(1..MaxPageItems)

(***************************************************************************)
(* Claims about chunking (checked under ChunkSpec).                        *)
(***************************************************************************)
\* C6: for min_chunk_size <= max_chunk_size and overlap >= 0, every chunk c
\* returned by split_text_into_chunks has min_chunk_size <= len(c) <= max_chunk_size.
C6_ChunkSizeWithinBounds ==
    (min_chunk_size <= max_chunk_size /\ overlap >= 0) =>
        \A k \in 1..Len(chunks) :
            /\ min_chunk_size <= Len(chunks[k])
            /\ Len(chunks[k]) <= max_chunk_size

\* A call that cut at a sentence end inside the window and trimmed whitespace:
\* chunks of different lengths, one shorter than the window.
C6_Witness ==
    /\ ck_pc = "returned"
    /\ ck_caller = "direct"
    /\ min_chunk_size = 3
    /\ max_chunk_size = 7
    /\ Len(chunks) = 2
    /\ Len(chunks[1]) = 6
    /\ Len(chunks[2]) = 3

\* C7: split_text_into_chunks terminates with a finite chunk list for every
\* text, max_chunk_size, min_chunk_size and overlap (also overlap >=
\* max_chunk_size): the cursor strictly increases on every iteration, so the
\* loop body runs at most len(text) times.
C7_CursorStrictlyIncreases ==
    /\ (ck_pc = "loop" /\ iterations > 0) => current_pos > prev_pos
    /\ current_pos >= 0
    /\ iterations <= Len(text)
    /\ Len(chunks) <= iterations
    /\ ck_pc = "loop" => current_pos >= iterations

C7_Witness ==
    /\ ck_pc = "returned"
    /\ ck_caller = "direct"
    /\ overlap >= max_chunk_size
    /\ iterations = Len(text)
    /\ iterations >= 3
    /\ Len(chunks) >= 3

\* C8 (as claimed): an item whose cleaned content is non-empty but shorter than
\* min_chunk_size still yields exactly one chunk holding its whole content.
C8_ShortItemYieldsOneChunk ==
    (/\ ck_pc = "done"
     /\ ck_caller = "item"
     /\ clean_text_for_rag(item_content) # <<>>
     /\ Len(clean_text_for_rag(item_content)) < min_chunk_size)
        => /\ Len(item_chunks) = 1
           /\ item_chunks[1].content = clean_text_for_rag(item_content)

\* The window text[prev_pos : prev_pos + max_chunk_size] of the last iteration.
LastWindow == Slice(text, prev_pos, prev_pos + max_chunk_size)

\* 0-based positions of the window's sentence terminators in its final 30%.
LateTerminators ==
    { k \in 0..(Len(LastWindow) - 1) :
         /\ LastWindow[k + 1] \in {".", "!", "?"}
         /\ 10 * k > 7 * max_chunk_size }

\* 0-based positions of the window's paragraph breaks in its final 50%.
LateParagraphBreaks ==
    { k \in 0..(Len(LastWindow) - 2) :
         /\ LastWindow[k + 1] = "\n" /\ LastWindow[k + 2] = "\n"
         /\ 2 * k > max_chunk_size }

SetMax(S) == CHOOSE k \in S : \A h \in S : h <= k

\* Where the claim puts the end of the chunk cut from the last window.
ClaimedBreak ==
    IF LateTerminators # {} THEN prev_pos + SetMax(LateTerminators) + 1
    ELSE IF LateParagraphBreaks # {} THEN prev_pos + SetMax(LateParagraphBreaks) + 2
    ELSE prev_pos + max_chunk_size

\* C26 (as claimed): when a non-final window contains a '.', '!' or '?' in its
\* final 30%, the chunk ends right after the right-most such terminator,
\* whichever character it is; only without one the last paragraph break in
\* the final 50% is used, and otherwise the cut is at the window boundary.
C26_BreakAfterRightmostTerminator ==
    (ck_pc = "loop" /\ iterations > 0) => break_pos = ClaimedBreak

\* The claim holds for windows with at most one kind of terminator in the
\* final 30% and no terminator on the window's last character.
BreakRuleSingleKind ==
    (/\ ck_pc = "loop" /\ iterations > 0
     /\ Cardinality({ LastWindow[k + 1] : k \in LateTerminators }) <= 1
     /\ Len(LastWindow) - 1 \notin LateTerminators)
        => break_pos = ClaimedBreak

\* s without its whitespace characters
NonWhitespace(s) == SelectSeq(s, LAMBDA c : c \notin Whitespace)

RECURSIVE Reconstruction(_)
\* The chunks cs[1..k] concatenated, each but the first without its leading
\* overlap characters.
Reconstruction(k) ==
    IF k = 0 THEN <<>>
    ELSE IF k = 1 THEN chunks[1]
    ELSE Reconstruction(k - 1) \o Slice(chunks[k], overlap, Len(chunks[k]))

\* C27 (as claimed): for every text of at least min_chunk_size characters the
\* chunks of split_text_into_chunks, concatenated after removing the leading
\* overlap characters of each chunk but the first, reproduce the source text
\* up to whitespace; no non-whitespace part of the source is missing.
\* Read for the sizes a caller would pass: min_chunk_size <= max_chunk_size
\* and overlap < max_chunk_size.
C27_ChunksReproduceText ==
    (/\ ck_pc = "returned"
     /\ ck_caller = "direct"
     /\ min_chunk_size <= max_chunk_size
     /\ overlap < max_chunk_size
     /\ Len(Strip(text)) >= min_chunk_size)
        => NonWhitespace(Reconstruction(Len(chunks))) = NonWhitespace(text)

\* Without overlap the text is reproduced when no chunk can be dropped for
\* being short.
ChunksReproduceTextWithoutDrop ==
    (/\ ck_pc = "returned"
     /\ ck_caller = "direct"
     /\ overlap = 0
     /\ min_chunk_size <= 1)
        => NonWhitespace(Reconstruction(Len(chunks))) = NonWhitespace(text)

(***************************************************************************)
(* Claims about identifiers (checked under IdSpec).                        *)
(***************************************************************************)
\* Characters that leave nothing behind in an identifier.
VanishingChars == {CombiningAcute, " ", "(", "!", "_"}

\* C9: for every input string (the empty one and strings of forbidden
\* characters included) normalize_document_id(s) is non-empty, consists of
\* [A-Za-z0-9_\-=] only and neither starts nor ends with '_'; an input that
\* normalizes to nothing yields 'unknown'.
C9_NormalizedIdWellFormed ==
    id_pc \in {"created", "uploaded"} =>
        /\ id_once # <<>>
        /\ \A k \in 1..Len(id_once) :
              id_once[k] \in Letters \cup Digits \cup {"_", "-", "="}
        /\ id_once[1] # "_"
        /\ id_once[Len(id_once)] # "_"
        /\ (\A k \in 1..Len(id_input) : id_input[k] \in VanishingChars)
              => id_once = <<"u", "n", "k", "n", "o", "w", "n">>

C9_Witness ==
    /\ id_pc = "created"
    /\ id_input = <<"(", EAcute, " ", "!", "_">>
    /\ id_once = <<"e">>

\* C10: normalize_document_id is idempotent, also for inputs that receive the
\* 'doc_' prefix or the 'unknown' sentinel.
C10_NormalizeIdempotent ==
    id_pc = "uploaded" => id_twice = id_once

C10_Witness ==
    /\ id_pc = "uploaded"
    /\ id_input = <<"-", "_", "_", "_", "a">>
    /\ id_once = <<"d", "o", "c", "_", "-", "_", "a">>
    /\ id_twice = id_once

(***************************************************************************)
(* Claims about chunk ids (checked under ChunkIdSpec).                     *)
(***************************************************************************)
RECURSIVE DecimalValue(_)
\* the number a string of decimal digits stands for
DecimalValue(d) ==
    IF d = <<>> THEN 0
    ELSE 10 * DecimalValue(SubSeq(d, 1, Len(d) - 1))
         + (CHOOSE k \in 0..9 : DecimalDigits[k + 1] = d[Len(d)])

\* The documented steps in order: strip diacritics; spaces and ()[]{} to '_';
\* every other forbidden character to '_'; collapse '_' runs; strip '_'.
DocumentedSteps(t) ==
    StripUnderscores(CollapseUnderscores(SubForbidden(
        MapChars(DropCombining(NFKD(t)), {" ", "(", ")", "[", "]", "{", "}"}, "_"))))

C12_ChunkIdsUnique ==
    run_pc = "done" =>
        \A p, q \in 1..Len(all_chunks) :
            p # q => all_chunks[p].id # all_chunks[q].id

(***************************************************************************)
(* Claims about content extraction (checked under ExtractSpec).            *)
(***************************************************************************)
\* The priority number of a strategy: method_priority for the methods of
\* _extract_content_fallback, the position in the chain for extract_main_content.
PriorityNumber(m) ==
    IF m \in SeqRange(FallbackMethods) THEN method_priority(m)
    ELSE IF m = Fallback THEN Len(content_selectors) + 1
    ELSE CHOOSE k \in 1..Len(content_selectors) : content_selectors[k] = m

\* The candidates the strategies produce on the page.
ProducedCandidates ==
    IF extractor = "_extract_content_fallback" THEN content_candidates(ex_found)
    ELSE { Candidate(m, ex_found) :
             m \in { x \in SeqRange(content_selectors) : ex_found[x] > SelectorThreshold }
                   \cup { x \in {Fallback} : ex_found[x] > 0 } }

\* The selection rule: a candidate of maximal length, and among those of
\* maximal length the one with the lowest priority number; "" without candidates.
SelectsLongest ==
    IF ProducedCandidates = {} THEN ex_result = NoContent
    ELSE /\ ex_result \in ProducedCandidates
         /\ \A d \in ProducedCandidates :
               /\ d.len <= ex_result.len
               /\ d.len = ex_result.len =>
                     PriorityNumber(ex_result.method) <= PriorityNumber(d.method)

\* C13: among the candidates produced by the content-extraction strategies
\* the extractor returns one of maximal length, and among candidates of that
\* length the one with the lowest priority number; without candidates it
\* returns the empty string.
C13_LongestCandidateWins ==
    ex_pc = "returned" => SelectsLongest

\* The rule as far as it holds: _extract_content_fallback follows it.
FallbackExtractorSelectsLongest ==
    ex_pc = "returned" /\ extractor = "_extract_content_fallback" => SelectsLongest

\* ' '.join of ten paragraph texts of 60 characters
TenParagraphsText == 10 * 60 + 9

\* A document without structural containers whose text is ten paragraphs of
\* 60 characters: no selector or container method finds anything, the
\* paragraphs give TenParagraphsText characters, and the text of the whole
\* document is no longer than that.
TenParagraphsPage ==
    IF extractor = "_extract_content_fallback"
    THEN /\ \A x \in {"article", "main-content", "entry-content", "post-content", "text-divs"} :
               ex_found[x] = 0
         /\ ex_found["paragraphs"] = TenParagraphsText
         /\ ex_found["all-text"] <= TenParagraphsText
    ELSE /\ \A x \in SeqRange(content_selectors) : ex_found[x] = 0
         /\ ex_found[Fallback] = TenParagraphsText

\* C25: for a document with no recognizable structural containers but 10
\* paragraphs of 60 characters each, the extractor returns the paragraph
\* aggregation and not the empty string, also when the whole-document last
\* resort produces a candidate of the same length.
C25_TenParagraphsReturned ==
    (ex_pc = "returned" /\ TenParagraphsPage) =>
        /\ ex_result # NoContent
        /\ ex_result.len = TenParagraphsText
        /\ ex_result.method = IF extractor = "_extract_content_fallback"
                              THEN "paragraphs" ELSE Fallback

\* The tie: paragraphs and all-text are candidates of the same length.
C25_Witness ==
    /\ ex_pc = "returned"
    /\ extractor = "_extract_content_fallback"
    /\ TenParagraphsPage
    /\ ex_found["all-text"] = TenParagraphsText
    /\ Candidate("all-text", ex_found) \in content_candidates(ex_found)
    /\ ex_result = Candidate("paragraphs", ex_found)

(***************************************************************************)
(* Claims about content validation (checked under ValidSpec).              *)
(***************************************************************************)
\* C14: is_valid_content(body) is false exactly when the stripped body is
\* shorter than the minimum character threshold or the case-folded body
\* contains one of the known error-page phrases - among them 'server
\* encountered an internal error', '503 service unavailable' and 'page not
\* found' - and true in every other case.
C14_ValidIffLongAndNoErrorPhrase ==
    vc_pc = "returned" =>
        LET known == error_indicators
                     \cup {"server encountered an internal error",
                           "503 service unavailable", "page not found"}
        IN  (vc_valid = FALSE)
               <=> (vc_body.len < MinContentLength \/ vc_body.phrases \cap known # {})

(***************************************************************************)
(* Claims about PDF chunking (checked under PdfSpec).                      *)
(***************************************************************************)
\* C15: within one PDF, chunk numbers are assigned while pages are processed
\* in ascending page_number order, start at 1 and strictly increase across
\* pages without restarting per page: a.page_number < b.page_number implies
\* a.chunk_number < b.chunk_number, and the emitted numbers are consecutive
\* even when fragments are discarded.
C15_ChunkNumbersAscendAcrossPages ==
    /\ \A a \in 1..Len(pdf_out) : pdf_out[a].chunk_number = a
    /\ \A a, b \in 1..Len(pdf_out) :
          /\ a < b => pdf_out[a].page_number <= pdf_out[b].page_number
          /\ pdf_out[a].page_number < pdf_out[b].page_number
                => pdf_out[a].chunk_number < pdf_out[b].chunk_number
    /\ chunk_id = Len(pdf_out) + 1

C15_Witness ==
    /\ pdf_pc = "done"
    /\ pdf_skipped >= 1
    /\ Len(pdf_out) = 2
    /\ pdf_out[1].page_number = 1
    /\ pdf_out[2].page_number = 3
    /\ pdf_out[2].chunk_number = 2

\* A fragment joins a buffer that already holds text.
MergedIntoBuffer ==
    /\ pdf_pc = "merge"
    /\ current_merged # <<>>
    /\ Len(current_merged') = Len(current_merged) + 1

\* Every text of the merge pass is joined from fragments of the page it
\* belongs to.
PageScoped ==
    /\ \A k \in 1..Len(current_merged) : current_merged[k].page = page_num
    /\ \A c \in 1..Len(merged_chunks) : \A k \in 1..Len(merged_chunks[c].text) :
          merged_chunks[c].text[k].page = page_num
    /\ \A c \in 1..Len(pdf_out) : \A k \in 1..Len(pdf_out[c].content) :
          pdf_out[c].content[k].page = pdf_out[c].page_number

\* The image references of a text: those of the fragments joined into it.
ImagesOfParts(t) == UNION { SeqRange(t[k].images) : k \in 1..Len(t) }

DuplicateFreeUnion(images, t) ==
    /\ SeqRange(images) = ImagesOfParts(t)
    /\ Len(images) = Cardinality(SeqRange(images))

ImagesAreUnion ==
    /\ \A c \in 1..Len(merged_chunks) :
          DuplicateFreeUnion(merged_chunks[c].images, merged_chunks[c].text)
    /\ pdf_impl = "pdfs" =>
          \A c \in 1..Len(pdf_out) :
              DuplicateFreeUnion(pdf_out[c].pictures, pdf_out[c].content)

\* C17: the merge pass is page-scoped and size-bounded: a fragment is
\* appended to the running buffer only while the buffer is shorter than 500
\* characters and the merged text would not exceed 1500 characters, a buffer
\* never combines fragments from different pages, and the image references
\* of a merged chunk are the duplicate-free union of the references of the
\* fragments merged into it.
C17_MergePageScopedAndBounded ==
    [][ /\ MergedIntoBuffer =>
              /\ TextLen(current_merged) < 500
              /\ TextLen(current_merged') <= 1500
        /\ PageScoped'
        /\ ImagesAreUnion' ]_vars

C17_Witness ==
    /\ pdf_pc = "done"
    /\ \E c \in 1..Len(pdf_out) :
          /\ Len(pdf_out[c].content) = 2
          /\ TextLen(pdf_out[c].content) = 1499
          /\ pdf_out[c].content[1].images = <<"i1">>
          /\ pdf_out[c].content[2].images = <<"i1", "i2">>
          /\ Len(pdf_out[c].pictures) = 2
    /\ Len(pdf_out) = 2
    /\ pdf_out[1].page_number # pdf_out[2].page_number

\* C18: no PDF chunk with fewer than 50 characters of content is ever
\* emitted, whatever min_chunk_size is configured.
C18_NoPdfChunkBelowFifty ==
    \A c \in 1..Len(pdf_out) : TextLen(pdf_out[c].content) >= 50

(***************************************************************************)
(* Claims about the oversize split (checked under PdfSplitSpec).           *)
(***************************************************************************)
\* C16: every fragment produced from a chunk longer than 2000 characters is
\* at most 1500 characters long (the words of the input being at most 1500
\* characters each).
C16_SplitFragmentsAtMost1500 ==
    sp_pc = "done" =>
        \A k \in 1..Len(final_chunks) : WordsLen(final_chunks[k]) <= 1500

(***************************************************************************)
(* Claims about dates (checked under DateSpec).                            *)
(***************************************************************************)
\* An ISO-8601 date and time with an explicit timezone: 'Z' or a UTC offset.
IsIso8601WithTimezone(s) ==
    \E d \in Days, t \in Times :
        \/ s = d \o <<"T">> \o t \o <<"Z">>
        \/ \E sign \in {"+", "-"}, hh \in {"00", "02", "05"} :
              s = d \o <<"T">> \o t \o <<sign, hh, ":", "00">>

\* An empty or missing value: None or a string of nothing but blanks.
IsEmptyDate(v) == v.kind = "None" \/ (v.kind = "str" /\ \A k \in 1..Len(v.s) : v.s[k] = " ")

\* The date and time a naive value stands for (midnight for a date alone),
\* or <<>> for a value that is not naive.
NaiveText(v) ==
    CASE v.kind = "datetime" /\ v.tzinfo = <<>> -> v.day \o <<"T">> \o v.time
      [] v.kind = "date" -> v.day \o <<"T", "00", ":", "00", ":", "00">>
      [] v.kind = "str" /\ ~ IsEmptyDate(v) ->
            LET s == SelectSeq(v.s, LAMBDA c : c # " ")
            IN  IF s \in Days THEN s \o <<"T", "00", ":", "00", ":", "00">>
                ELSE IF Len(s) = 11 THEN s
                ELSE <<>>
      [] OTHER -> <<>>

\* C20: format_date returns, for every non-empty date value, an ISO-8601
\* string with an explicit timezone ('Z' or a UTC offset); a naive value (a
\* datetime without tzinfo or a date string without timezone) is taken as
\* UTC and rendered with the suffix 'Z'; an empty or missing value yields
\* None.
C20_FormatDateIsoWithTimezone ==
    fd_pc = "returned" =>
        /\ IsEmptyDate(date_value) => fd_result = NoneDate
        /\ ~ IsEmptyDate(date_value) =>
              /\ fd_result.kind = "str"
              /\ IsIso8601WithTimezone(fd_result.s)
        /\ NaiveText(date_value) # <<>> =>
              fd_result = StrDate(NaiveText(date_value) \o <<"Z">>)

\* What holds of format_date on strings: a date string comes back in
\* ISO-8601 with a timezone, a naive one with the suffix 'Z'.
FormatDateOfStrings ==
    fd_pc = "returned" /\ date_value.kind \in {"None", "str"} =>
        C20_FormatDateIsoWithTimezone

(***************************************************************************)
(* Claims about upload-time validation (checked under DocSpec).            *)
(***************************************************************************)
\* Every document of fixed_docs has non-empty content and an id that
\* matches ^[A-Za-z0-9_\-=]+$.
DocsWellFormed ==
    \A k \in 1..Len(fixed_docs) :
        /\ fixed_docs[k].content.kind = "str"
        /\ fixed_docs[k].content.raw_len > 0
        /\ fixed_docs[k].id.kind = "str"
        /\ fixed_docs[k].id.s # <<>>
        /\ \A j \in 1..Len(fixed_docs[k].id.s) :
              fixed_docs[k].id.s[j] \in Letters \cup Digits \cup {"_", "-", "="}

\* The document in hand lacks its id or its content.
DocLacksIdOrContent ==
    \/ doc.id.kind \in {"absent", "None"} \/ doc.id.s = <<>>
    \/ doc.content.kind \in {"absent", "None"} \/ doc.content.raw_len = 0

\* C19: after upload-time validation every document handed on to embedding
\* and upload has non-empty content and an id matching ^[A-Za-z0-9_\-=]+$; a
\* document with missing id or content is removed rather than handed on.
C19_UploadedDocsHaveIdAndContent ==
    [][ doc_impl = "upload" =>
          /\ DocsWellFormed'
          /\ (doc_pc = "read" /\ DocLacksIdOrContent) =>
                /\ fixed_docs' = fixed_docs
                /\ doc_stats'.invalid_removed = doc_stats.invalid_removed + 1
          /\ (doc_pc = "read" /\ ~ DocLacksIdOrContent) =>
                Len(fixed_docs') = Len(fixed_docs) + 1 ]_vars

C19_Witness ==
    /\ doc_pc = "done"
    /\ doc_impl = "upload"
    /\ n_docs = 2
    /\ doc_stats.invalid_removed = 1
    /\ doc_stats.fixed_ids = 1
    /\ doc_stats.output_count = 1
    /\ fixed_docs[1].id.s = <<"a", "_", "b">>

\* The standalone validator of validation.py, when it fixes, hands on
\* well-formed documents too, and removes a document whose id key or
\* content is missing.
StandaloneValidatorWellFormed ==
    [][ doc_impl = "validation" /\ auto_fix =>
          /\ DocsWellFormed'
          /\ (doc_pc = "read" /\ (doc.id.kind = "absent" \/ ContentFalsy(doc.content)))
                => fixed_docs' = fixed_docs ]_vars

(***************************************************************************)
(* Claims about process_all_pdfs (checked under PdfBatchSpec).             *)
(***************************************************************************)
\* C21: a PDF whose download or content extraction fails adds no chunks and
\* is passed over without raising; the loop goes on with the next PDF of the
\* item and then with the next items, and when every PDF fails
\* process_all_pdfs returns empty lists.
C21_FailedPdfSkippedBatchContinues ==
    /\ [](\A c \in 1..Len(pdf_chunks) :
            \E r \in 1..Len(raw_items) :
                raw_items[r] = <<pdf_chunks[c].item, pdf_chunks[c].sourcefile>>)
    /\ [](run_pc = "returned" => run_i = n_items + 1)
    /\ []((run_pc = "returned" /\ raw_items = <<>>) => pdf_chunks = <<>>)
    /\ [][run_pc = "pdf_url" =>
            /\ run_pc' \in {"pdf_url", "pdf_item"}
            /\ IF run_j < run_npdfs
               THEN run_pc' = "pdf_url" /\ run_i' = run_i /\ run_j' = run_j + 1
               ELSE run_pc' = "pdf_item" /\ run_i' = run_i + 1
            /\ pdf_outcome' \in {"download_failed", "no_content"} =>
                  /\ pdf_chunks' = pdf_chunks
                  /\ raw_items' = raw_items]_vars

\* The first PDF of the first item failed; the second PDF of that item and
\* the PDF of the second item were processed and gave chunks.
C21_Witness ==
    /\ run_pc = "returned"
    /\ n_items = 2
    /\ raw_items = << <<1, 2>>, <<2, 1>> >>
    /\ pdf_outcome = "extracted"
    /\ Len(pdf_chunks) = 3
    /\ pdf_chunks[1].item = 1
    /\ pdf_chunks[3].item = 2

(***************************************************************************)
(* Claims about the order of work in one run (checked under PipelineSpec). *)
(***************************************************************************)
\* The items whose page has been chunked by create_rag_chunks so far.
ItemsChunked ==
    IF run_pc = "idle" THEN 0
    ELSE IF run_pc = "page_chunks" THEN run_i - 1
    ELSE n_items

\* The fetch of item k has begun: scrape_item_details was entered for it.
FetchBegun(k) ==
    \/ pc \in {"sid_try", "sid_after", "record"} /\ i >= k
    \/ pc = "swr" /\ swr_caller = "item" /\ i >= k
    \/ pc \in {"finish", "done"} /\ Len(main_items) >= k

\* C24 (as claimed): processing is strictly sequential per item: item k is
\* fully fetched, extracted and chunked before the fetch of item k + 1 begins.
C24_ItemChunkedBeforeNextFetch ==
    \A k \in 1..MaxPageItems : FetchBegun(k + 1) => ItemsChunked >= k

\* The other half of C24: no two operations run at the same time. The session
\* has returned before the first page is chunked, and within the session item
\* k is recorded before the fetch of item k + 1 begins.
OneOperationAtATime ==
    /\ run_pc # "idle" => pc = "done"
    /\ \A k \in 1..MaxPageItems : FetchBegun(k + 1) => Len(detailed_items) >= k


====
